---------------------------- MODULE Spec2Model ----------------------------
(***************************************************************************)
(* Verification model of the Kweens puzzle engine of DailyArcade:          *)
(*   - the conflict / win evaluator and the forbidden overlay (logic.ts),  *)
(*   - the play session of GameScreen.tsx (tap, long-press, reset),        *)
(*   - the backtracking solvability oracle (logic.ts),                     *)
(*   - the seeded region partitioner generateRegions (logic.ts),           *)
(*   - the connectivity validator / repairer (ConnectivityValidator),      *)
(*   - the puzzle catalog and its selector (solvablePuzzles.ts),           *)
(*   - the variation generator (connectedPuzzleGenerator.ts),              *)
(*   - the card state of the rummy game (RummyApp).                        *)
(* Boards and region grids are 0-based functions [row -> [col -> value]],  *)
(* as the arrays of the source are.                                        *)
(***************************************************************************)
EXTENDS Integers, Sequences, FiniteSets, TLC

VARIABLES
    puzzle,             \* the Puzzle under play or evaluation: [id, size, regions]
    board,              \* React state `board` / the board handed to a pure function
    boardWithForbidden, \* useMemo(calculateForbiddenPositions(board, puzzle))
    lastOp,             \* which handler ran last in the session
    call,               \* which pure function has been applied to (board, puzzle)
    ret,                \* what that function returned
    genN,               \* generateRegions: argument n
    genSeed,            \* generateRegions: argument seed (Undefined when omitted)
    gen,                \* generateRegions: the two calls in progress, 1 and 2
    dayIndex,           \* getPuzzleForDay: argument dayIndex
    basePuzzles,        \* generateConnectedVariations: argument basePuzzles
    rummy               \* the rummy game: its React state and pending timeouts

vars == <<puzzle, board, boardWithForbidden, lastOp, call, ret, genN, genSeed, gen, dayIndex, basePuzzles, rummy>>

(***************************************************************************)
(* Bounds of the model.                                                    *)
(***************************************************************************)
MaxMarks == 2       \* session: at most this many non-empty cells on the board
MaxQueens == 4      \* evaluator inputs: at most this many queens on a board
MaxSeed == 12       \* generateRegions: seeds range over -MaxSeed..MaxSeed
MaxN == 4           \* generateRegions is called with n in 4..MaxN
MaxDay == 30        \* selector: day indices -MaxDay .. MaxDay
MaxShift == 2       \* variations: shuffleRegionIds rotates the labels by 0 .. MaxShift
MaxEdits == 2       \* repairer inputs: cells overwritten in a connected grid
MaxTurns == 1       \* rummy: turns the player takes in a session
MaxCut == 1         \* rummy: shuffleDeck returns the deck cut at 0 .. MaxCut

NA == "n/a"

Idx(n) == 0 .. (n - 1)
Cells(n) == Idx(n) \X Idx(n)

Abs(x) == IF x < 0 THEN -x ELSE x

\* A grid as an explicit table: TLC then evaluates every cell once, when the
\* grid is built, instead of on every later read.
Eager(g) == [r \in DOMAIN g |-> g[r] @@ <<>>] @@ <<>>

\* Conversion of a tuple of rows (a grid literal) to a 0-based grid.
Grid(rows) ==
    Eager([r \in Idx(Len(rows)) |-> [c \in Idx(Len(rows[r + 1])) |-> rows[r + 1][c + 1]]])

MkPuzzle(id, rows) == [id |-> id, size |-> Len(rows), regions |-> Grid(rows)]

q4a == MkPuzzle("q4a", << <<0, 0, 1, 1>>,
                          <<0, 2, 2, 1>>,
                          <<3, 2, 2, 3>>,
                          <<3, 3, 3, 3>> >>)

CellState == {"empty", "queen", "x", "dot", "forbidden"}

(***************************************************************************)
(* Board helpers of logic.ts.                                              *)
(***************************************************************************)
\* Mutant of createEmptyBoard: the first cell is created with a dot.
createEmptyBoardDotted(n) ==
    Eager([r \in Idx(n) |-> [c \in Idx(n) |-> IF r = 0 /\ c = 0 THEN "dot" ELSE "empty"]])

createEmptyBoard(n) == Eager([r \in Idx(n) |-> [c \in Idx(n) |-> "empty"]])

cloneBoard(b) == Eager([r \in DOMAIN b |-> [c \in DOMAIN b[r] |-> b[r][c]]])

countQueens(b) ==
    Cardinality({rc \in Cells(Cardinality(DOMAIN b)) : b[rc[1]][rc[2]] = "queen"})

\* The queens of a board in the row-major order in which the two for loops of
\* the source collect them.
QueensFrom(b, n) ==
    LET Q == {rc \in Cells(n) : b[rc[1]][rc[2]] = "queen"}
        pos(q) == q[1] * n + q[2]
    IN  [i \in 1 .. Cardinality(Q) |->
            CHOOSE q \in Q : Cardinality({o \in Q : pos(o) < pos(q)}) = i - 1]

diagonalDirs == {<<-1, -1>>, <<-1, 1>>, <<1, -1>>, <<1, 1>>}

\* Mutant of MarkForQueen: the marks also replace the player's x.
MarkForQueenOverX(result, p, qr, qc) ==
    LET n == p.size
        queenRegion == p.regions[qr][qc]
        hit(r, c) ==
            \/ r = qr /\ c # qc
            \/ c = qc /\ r # qr
            \/ <<r - qr, c - qc>> \in diagonalDirs
            \/ p.regions[r][c] = queenRegion
    IN  Eager([r \in Idx(n) |-> [c \in Idx(n) |->
            IF result[r][c] \in {"empty", "x"} /\ hit(r, c) THEN "forbidden" ELSE result[r][c]]])

\* One iteration of queens.forEach in calculateForbiddenPositions: the marks
\* written for the queen at (qr, qc), each only into a cell still 'empty'.
MarkForQueen(result, p, qr, qc) ==
    LET n == p.size
        queenRegion == p.regions[qr][qc]
        hit(r, c) ==
            \/ r = qr /\ c # qc
            \/ c = qc /\ r # qr
            \/ <<r - qr, c - qc>> \in diagonalDirs
            \/ p.regions[r][c] = queenRegion
    IN  Eager([r \in Idx(n) |-> [c \in Idx(n) |->
            IF result[r][c] = "empty" /\ hit(r, c) THEN "forbidden" ELSE result[r][c]]])

RECURSIVE MarkAll(_, _, _)
MarkAll(result, p, queens) ==
    IF queens = <<>> THEN result
    ELSE MarkAll(MarkForQueen(result, p, Head(queens)[1], Head(queens)[2]), p, Tail(queens))

calculateForbiddenPositions(b, p) ==
    MarkAll(cloneBoard(b), p, QueensFrom(b, p.size))

(***************************************************************************)
(* Conflict / win evaluator of logic.ts.                                   *)
(***************************************************************************)
\* Mutant of isDiagonalTouch: a queen anywhere on a diagonal of (r, c) counts.
isDiagonalTouchLine(b, r, c) ==
    LET n == Cardinality(DOMAIN b)
    IN  \E q \in Cells(n) :
            /\ q # <<r, c>>
            /\ Abs(q[1] - r) = Abs(q[2] - c)
            /\ b[q[1]][q[2]] = "queen"

isDiagonalTouch(b, r, c) ==
    LET n == Cardinality(DOMAIN b)
    IN  \E d \in diagonalDirs :
            LET rr == r + d[1]
                cc == c + d[2]
            IN  rr >= 0 /\ rr < n /\ cc >= 0 /\ cc < n /\ b[rr][cc] = "queen"

\* regionMap of computeConflicts: label -> regionIndex, 0-based; the row-major
\* scan gives a label the number of labels that appear before it.
regionMap(p) ==
    LET n == p.size
        labels == {p.regions[rc[1]][rc[2]] : rc \in Cells(n)}
        first(rid) == CHOOSE k \in 0 .. (n * n - 1) :
                          /\ p.regions[k \div n][k % n] = rid
                          /\ \A j \in 0 .. (k - 1) : p.regions[j \div n][j % n] # rid
        firstOf == [rid \in labels |-> first(rid)]
        byLabel == [rid \in labels |->
                       Cardinality({other \in labels : firstOf[other] < firstOf[rid]})]
    IN  byLabel @@ byLabel

markRow(b, r, c) == b[r][c] = "queen"

markCol(b, r, c) == b[r][c] = "queen"

\* Mutant of computeConflicts: the flags depend on whether a call went before.
computeConflictsStateful(b, p) ==
    Eager([r \in Idx(p.size) |-> [c \in Idx(p.size) |->
        b[r][c] = "queen" /\ call = "none"]])

\* The flag of cell (r, c): set by the first pass (diagonal touch), by markRow
\* when the row holds more than one queen, by markCol when the column does, or
\* by the region pass when the cell's region holds more than one queen.
\* Flags are only ever set, so the result is the union of the four passes.
computeConflicts(b, p) ==
    LET n == p.size
        rowCounts(r) == Cardinality({c \in Idx(n) : b[r][c] = "queen"})
        colCounts(c) == Cardinality({r \in Idx(n) : b[r][c] = "queen"})
        rmap == regionMap(p)
        queensOf(i) == {rc \in Cells(n) :
                           /\ rmap[p.regions[rc[1]][rc[2]]] = i
                           /\ b[rc[1]][rc[2]] = "queen"}
    IN  Eager([r \in Idx(n) |-> [c \in Idx(n) |->
            \/ b[r][c] = "queen" /\ isDiagonalTouch(b, r, c)
            \/ rowCounts(r) > 1 /\ markRow(b, r, c)
            \/ colCounts(c) > 1 /\ markCol(b, r, c)
            \/ /\ b[r][c] = "queen"
               /\ Cardinality(queensOf(rmap[p.regions[r][c]])) > 1]])

\* Mutant of hasWon: the conflict grid is not consulted.
hasWonCountsOnly(b, p) ==
    LET n == p.size
        usedRegions == {p.regions[rc[1]][rc[2]] : rc \in {x \in Cells(n) : b[x[1]][x[2]] = "queen"}}
    IN  /\ countQueens(b) = n
        /\ \A r \in Idx(n) : Cardinality({c \in Idx(n) : b[r][c] = "queen"}) = 1
        /\ \A c \in Idx(n) : Cardinality({r \in Idx(n) : b[r][c] = "queen"}) = 1
        /\ Cardinality(usedRegions) = n

hasWon(b, p) ==
    LET n == p.size
        conf == computeConflicts(b, p)
        usedRegions == {p.regions[rc[1]][rc[2]] : rc \in {x \in Cells(n) : b[x[1]][x[2]] = "queen"}}
        regionCounts == [l \in usedRegions |->
            Cardinality({rc \in Cells(n) : b[rc[1]][rc[2]] = "queen" /\ p.regions[rc[1]][rc[2]] = l})]
    IN  IF countQueens(b) # n THEN FALSE
        ELSE IF \E r \in Idx(n) : Cardinality({c \in Idx(n) : b[r][c] = "queen"}) # 1 THEN FALSE
        ELSE IF \E c \in Idx(n) : Cardinality({r \in Idx(n) : b[r][c] = "queen"}) # 1 THEN FALSE
        ELSE IF \E l \in usedRegions : regionCounts[l] # 1 THEN FALSE
        ELSE \A r \in Idx(n) : \A c \in Idx(n) : ~conf[r][c]

(***************************************************************************)
(* The play session of GameScreen.tsx.                                     *)
(***************************************************************************)
SessionPuzzles == {q4a}

NonEmpty(b) ==
    Cardinality({rc \in Cells(Cardinality(DOMAIN b)) : b[rc[1]][rc[2]] # "empty"})

\* Mutant of tapCycle: a queen or a dot stays.
tapCycleStuck(currentCell) ==
    IF currentCell = "empty" THEN "x"
    ELSE IF currentCell = "x" THEN "queen"
    ELSE currentCell

\* The state cycle of tap: empty -> x -> queen -> empty, anything else -> empty.
tapCycle(currentCell) ==
    IF currentCell = "empty" THEN "x"
    ELSE IF currentCell = "x" THEN "queen"
    ELSE IF currentCell = "queen" THEN "empty"
    ELSE "empty"

\* Mutant of longToggle: every cell that holds no dot gets one.
longToggleAny(currentCell) ==
    IF currentCell = "dot" THEN "empty" ELSE "dot"

\* The toggle of long: dot -> empty, empty -> dot, anything else kept.
longToggle(currentCell) ==
    IF currentCell = "dot" THEN "empty"
    ELSE IF currentCell = "empty" THEN "dot"
    ELSE currentCell

\* Mutant of Render: the overlay is stored as the board.
RenderStoresOverlay(b) ==
    /\ board' = calculateForbiddenPositions(b, puzzle)
    /\ NonEmpty(b) <= MaxMarks
    /\ boardWithForbidden' = calculateForbiddenPositions(b, puzzle)

\* setBoard(b) and the render that follows it; the session is cut off where the
\* player would mark more than MaxMarks cells.
Render(b) ==
    /\ board' = b
    /\ NonEmpty(b) <= MaxMarks
    /\ boardWithForbidden' = calculateForbiddenPositions(b, puzzle)

\* Mutant of tap: the gate also blocks an x that shares its row with a queen.
tapBlocksX(r, c) ==
    /\ lastOp # NA
    /\ IF \/ boardWithForbidden[r][c] = "forbidden"
          \/ board[r][c] = "x" /\ \E k \in Idx(puzzle.size) : board[r][k] = "queen"
       THEN /\ lastOp' = "tapForbidden"
            /\ UNCHANGED <<board, boardWithForbidden>>
       ELSE /\ lastOp' = "tap"
            /\ Render([cloneBoard(board) EXCEPT ![r][c] = tapCycle(board[r][c])])
    /\ UNCHANGED <<puzzle, call, ret, genN, genSeed, gen, dayIndex, basePuzzles, rummy>>

\* Mutant of tap: the overlay is not consulted.
tapUngated(r, c) ==
    /\ lastOp # NA
    /\ lastOp' = "tap"
    /\ Render([cloneBoard(board) EXCEPT ![r][c] = tapCycle(board[r][c])])
    /\ UNCHANGED <<puzzle, call, ret, genN, genSeed, gen, dayIndex, basePuzzles, rummy>>

tap(r, c) ==
    /\ lastOp # NA
    /\ IF boardWithForbidden[r][c] = "forbidden"
       THEN /\ lastOp' = "tapForbidden"
            /\ UNCHANGED <<board, boardWithForbidden>>
       ELSE /\ lastOp' = "tap"
            /\ Render([cloneBoard(board) EXCEPT ![r][c] = tapCycle(board[r][c])])
    /\ UNCHANGED <<puzzle, call, ret, genN, genSeed, gen, dayIndex, basePuzzles, rummy>>

long(r, c) ==
    /\ lastOp # NA
    /\ IF boardWithForbidden[r][c] = "forbidden"
       THEN /\ lastOp' = "longForbidden"
            /\ UNCHANGED <<board, boardWithForbidden>>
       ELSE /\ lastOp' = "long"
            /\ Render([cloneBoard(board) EXCEPT ![r][c] = longToggle(board[r][c])])
    /\ UNCHANGED <<puzzle, call, ret, genN, genSeed, gen, dayIndex, basePuzzles, rummy>>

\* Mutant of resetGame: the reset installs another puzzle object.
resetGameNewPuzzle ==
    /\ lastOp # NA
    /\ lastOp' = "reset"
    /\ Render(createEmptyBoard(puzzle.size))
    /\ puzzle' = [puzzle EXCEPT !.id = "reset"]
    /\ UNCHANGED <<call, ret, genN, genSeed, gen, dayIndex, basePuzzles, rummy>>

resetGame ==
    /\ lastOp # NA
    /\ Render(createEmptyBoard(puzzle.size))
    /\ lastOp' = "reset"
    /\ UNCHANGED <<puzzle, call, ret, genN, genSeed, gen, dayIndex, basePuzzles, rummy>>

Init ==
    /\ puzzle \in SessionPuzzles
    /\ board = createEmptyBoard(puzzle.size)
    /\ boardWithForbidden = calculateForbiddenPositions(board, puzzle)
    /\ lastOp = "mount"
    /\ call = NA /\ ret = NA
    /\ genN = NA /\ genSeed = NA /\ gen = NA
    /\ dayIndex = NA
    /\ basePuzzles = NA /\ rummy = NA

Tap == \E r \in Idx(puzzle.size) : \E c \in Idx(puzzle.size) : tap(r, c)
Long == \E r \in Idx(puzzle.size) : \E c \in Idx(puzzle.size) : long(r, c)

Next == Tap \/ Long \/ resetGame

Spec == Init /\ [][Next]_vars

(***************************************************************************)
(* C9, C10: the tap gate and the tap cycle.                                *)
(***************************************************************************)
\* Some queen of board b shares the row, the column or the region of (r, c),
\* or stands on a cell touching (r, c) diagonally.
QueenBlocks(b, p, r, c) ==
    \E q \in Cells(p.size) :
        /\ q # <<r, c>>
        /\ b[q[1]][q[2]] = "queen"
        /\ \/ q[1] = r
           \/ q[2] = c
           \/ p.regions[q[1]][q[2]] = p.regions[r][c]
           \/ Abs(q[1] - r) = 1 /\ Abs(q[2] - c) = 1

\* C9: a tap on a cell that is not forbidden in the overlay changes only that
\* cell of the stored board: empty -> x, x -> queen, queen -> empty, dot -> empty;
\* every other cell keeps its state.
C9_TapCyclesOneCell ==
    [][\A r \in Idx(puzzle.size) : \A c \in Idx(puzzle.size) :
        (boardWithForbidden[r][c] # "forbidden" /\ tap(r, c)) =>
            /\ board[r][c] = "empty" => board'[r][c] = "x"
            /\ board[r][c] = "x" => board'[r][c] = "queen"
            /\ board[r][c] = "queen" => board'[r][c] = "empty"
            /\ board[r][c] = "dot" => board'[r][c] = "empty"
            /\ \A q \in Cells(puzzle.size) :
                   q # <<r, c>> => board'[q[1]][q[2]] = board[q[1]][q[2]]]_vars

\* A tap has just run, and the board holds a queen (two taps on its cell) and an x.
C9_Witness ==
    /\ lastOp = "tap"
    /\ \E q \in Cells(puzzle.size) : board[q[1]][q[2]] = "queen"
    /\ \E q \in Cells(puzzle.size) : board[q[1]][q[2]] = "x"

\* C10: the overlay the tap handler reads is calculateForbiddenPositions of the
\* current board, and a tap on a cell it marks forbidden leaves the whole board
\* unchanged; hence no step turns an empty cell that a placed queen blocks
\* (row, column, region, touching diagonal) into x.
C10_ForbiddenTapIsNoOp ==
    /\ [](boardWithForbidden = calculateForbiddenPositions(board, puzzle))
    /\ [][\A r \in Idx(puzzle.size) : \A c \in Idx(puzzle.size) :
              /\ (boardWithForbidden[r][c] = "forbidden" /\ tap(r, c)) => board' = board
              /\ (board[r][c] = "empty" /\ board'[r][c] = "x")
                     => ~QueenBlocks(board, puzzle, r, c)]_vars

\* A tap on a forbidden cell has just been swallowed, next to a placed queen.
C10_Witness ==
    /\ lastOp = "tapForbidden"
    /\ \E q \in Cells(puzzle.size) : board[q[1]][q[2]] = "queen"
    /\ \E q \in Cells(puzzle.size) :
           /\ board[q[1]][q[2]] = "empty"
           /\ boardWithForbidden[q[1]][q[2]] = "forbidden"

(***************************************************************************)
(* C11, C13, C14: long-press, the stored states, the puzzle.               *)
(***************************************************************************)
\* C11: a long-press changes the board only by toggling the pressed cell
\* between empty and dot; on a cell that stores x or queen, or that is forbidden
\* in the overlay, it leaves the whole board unchanged.
C11_LongTogglesDotOnly ==
    [][\A r \in Idx(puzzle.size) : \A c \in Idx(puzzle.size) :
          long(r, c) =>
              IF boardWithForbidden[r][c] = "forbidden" \/ board[r][c] \in {"x", "queen"}
              THEN board' = board
              ELSE /\ board[r][c] = "empty" => board'[r][c] = "dot"
                   /\ board[r][c] = "dot" => board'[r][c] = "empty"
                   /\ \A q \in Cells(puzzle.size) :
                          q # <<r, c>> => board'[q[1]][q[2]] = board[q[1]][q[2]]]_vars

\* A long-press on a forbidden cell has been swallowed on a board that holds a dot.
C11_Witness ==
    /\ lastOp = "longForbidden"
    /\ \E q \in Cells(puzzle.size) : board[q[1]][q[2]] = "dot"

\* C13: every cell of every stored board reachable by taps, long-presses and
\* resets is empty, x, queen or dot; forbidden exists only in the overlay.
C13_ForbiddenNeverStored ==
    \A q \in Cells(puzzle.size) : board[q[1]][q[2]] \in {"empty", "x", "queen", "dot"}

\* After a long-press: the overlay shows forbidden cells, the board stores none.
C13_Witness ==
    /\ lastOp = "long"
    /\ \E q \in Cells(puzzle.size) : boardWithForbidden[q[1]][q[2]] = "forbidden"
    /\ \A q \in Cells(puzzle.size) : board[q[1]][q[2]] # "forbidden"

C23_StartAndResetEmpty ==
    lastOp \in {"mount", "reset"} =>
        /\ DOMAIN board = Idx(puzzle.size)
        /\ \A r \in Idx(puzzle.size) :
               /\ DOMAIN board[r] = Idx(puzzle.size)
               /\ \A c \in Idx(puzzle.size) : board[r][c] = "empty"

\* A reset has left an empty board whose overlay forbids nothing.
C23_Witness ==
    /\ lastOp = "reset"
    /\ \A q \in Cells(puzzle.size) :
           board[q[1]][q[2]] = "empty" /\ boardWithForbidden[q[1]][q[2]] = "empty"

\* C29: the tap gate never blocks a cell that stores x: the overlay never
\* shows such a cell as forbidden, and a tap on it turns it into a queen whatever
\* queens are placed.  Boards with conflicting queens are therefore reachable.
C29_TapOnXPlacesQueen ==
    /\ [](\A q \in Cells(puzzle.size) :
             board[q[1]][q[2]] = "x" => boardWithForbidden[q[1]][q[2]] = "x")
    /\ [][\A r \in Idx(puzzle.size) : \A c \in Idx(puzzle.size) :
              (board[r][c] = "x" /\ tap(r, c)) => board'[r][c] = "queen"]_vars

\* Taps have put a second queen on an x that a queen blocked: the board holds
\* two queens flagged by computeConflicts and nothing else.
C29_Witness ==
    /\ lastOp = "tap"
    /\ countQueens(board) = 2
    /\ NonEmpty(board) = 2
    /\ \E q \in Cells(puzzle.size) : computeConflicts(board, puzzle)[q[1]][q[2]]

(***************************************************************************)
(* Pure functions applied to bounded inputs: the evaluator.                *)
(***************************************************************************)
\* generateRegions(4, 1), accepted in the first attempt
g4s1 == MkPuzzle("g4s1", << <<0, 2, 2, 2>>,
                            <<0, 2, 2, 2>>,
                            <<1, 1, 1, 3>>,
                            <<1, 1, 3, 3>> >>)

\* the diagonal stripes (r + c) mod 4 of createFallbackRegions
stripes4 == MkPuzzle("stripes4", << <<0, 1, 2, 3>>,
                                    <<1, 2, 3, 0>>,
                                    <<2, 3, 0, 1>>,
                                    <<3, 0, 1, 2>> >>)

\* a grid of size 4 with five labels: not a well-formed puzzle
five4 == MkPuzzle("five4", << <<0, 0, 1, 1>>,
                              <<0, 2, 2, 1>>,
                              <<3, 2, 2, 4>>,
                              <<3, 3, 4, 4>> >>)

EvalPuzzles == {q4a, g4s1, stripes4, five4}

QueenSets(n) == {Q \in SUBSET Cells(n) : Cardinality(Q) <= MaxQueens}

\* The marks put on the cells that hold no queen, in one of four layouts.
MarkAt(k, r, c) ==
    IF k = 0 THEN "empty"
    ELSE <<"empty", "x", "dot", "forbidden">>[((r + 2 * c + k) % 4) + 1]

EvalBoard(Q, k, n) ==
    Eager([r \in Idx(n) |-> [c \in Idx(n) |->
        IF <<r, c>> \in Q THEN "queen" ELSE MarkAt(k, r, c)]])

InitEval ==
    /\ puzzle \in EvalPuzzles
    /\ board \in {EvalBoard(Q, k, puzzle.size) : Q \in QueenSets(puzzle.size), k \in 0 .. 3}
    /\ boardWithForbidden = NA
    /\ lastOp = NA
    /\ call = "none" /\ ret = NA
    /\ genN = NA /\ genSeed = NA /\ gen = NA
    /\ dayIndex = NA
    /\ basePuzzles = NA /\ rummy = NA

Apply(f, result) ==
    /\ call = "none"
    /\ call' = f
    /\ ret' = result
    /\ UNCHANGED <<puzzle, board, boardWithForbidden, lastOp, genN, genSeed, gen, dayIndex, basePuzzles, rummy>>

CallHasWon == Apply("hasWon", hasWon(board, puzzle))

CallComputeConflicts == Apply("computeConflicts", computeConflicts(board, puzzle))

CallCalculateForbiddenPositions ==
    Apply("calculateForbiddenPositions", calculateForbiddenPositions(board, puzzle))

\* A second call of computeConflicts on the same (board, puzzle), as the
\* useMemo of the next render makes it.
CallComputeConflictsAgain ==
    /\ call = "computeConflicts"
    /\ call' = "computeConflictsAgain"
    /\ ret' = computeConflicts(board, puzzle)
    /\ UNCHANGED <<puzzle, board, boardWithForbidden, lastOp, genN, genSeed, gen, dayIndex, basePuzzles, rummy>>

NextEval ==
    \/ CallHasWon
    \/ CallComputeConflicts
    \/ CallCalculateForbiddenPositions
    \/ CallComputeConflictsAgain

SpecEval == InitEval /\ [][NextEval]_vars

Labels(p) == {p.regions[rc[1]][rc[2]] : rc \in Cells(p.size)}

QueensOf(b, n) == {rc \in Cells(n) : b[rc[1]][rc[2]] = "queen"}

\* The rules of the game, stated on the set of queens alone.
WinningSet(Q, p) ==
    /\ Cardinality(Q) = p.size
    /\ \A r \in Idx(p.size) : Cardinality({q \in Q : q[1] = r}) = 1
    /\ \A c \in Idx(p.size) : Cardinality({q \in Q : q[2] = c}) = 1
    /\ \A l \in Labels(p) : Cardinality({q \in Q : p.regions[q[1]][q[2]] = l}) = 1
    /\ \A q1 \in Q : \A q2 \in Q :
           ~(Abs(q1[1] - q2[1]) = 1 /\ Abs(q1[2] - q2[2]) = 1)

\* C1: for a puzzle of size n with exactly n labels, hasWon(board, puzzle) is
\* true iff the board holds exactly n queens, one in every row, column and
\* region, no two of them touching diagonally; x, dot and forbidden cells do
\* not matter.
C1_HasWonIffRules ==
    (call = "hasWon" /\ Cardinality(Labels(puzzle)) = puzzle.size)
        => (ret <=> WinningSet(QueensOf(board, puzzle.size), puzzle))

\* hasWon has returned true on a board that also carries x, dot and forbidden marks.
C1_Witness ==
    /\ call = "hasWon" /\ ret = TRUE
    /\ Cardinality(Labels(puzzle)) = puzzle.size
    /\ \A m \in {"x", "dot", "forbidden"} :
           \E q \in Cells(puzzle.size) : board[q[1]][q[2]] = m

\* C2: computeConflicts flags (r, c) exactly when it holds a queen and another
\* queen is in its row, in its column, in its region or on one of the four
\* cells touching it diagonally; x, dot and forbidden marks are ignored.
C2_ConflictsExact ==
    call = "computeConflicts" =>
        \A r \in Idx(puzzle.size) : \A c \in Idx(puzzle.size) :
            ret[r][c] <=> (board[r][c] = "queen" /\ QueenBlocks(board, puzzle, r, c))

\* computeConflicts has flagged one queen and cleared another, on a marked board.
C2_Witness ==
    /\ call = "computeConflicts"
    /\ \E q \in Cells(puzzle.size) : ret[q[1]][q[2]]
    /\ \E q \in Cells(puzzle.size) : board[q[1]][q[2]] = "queen" /\ ~ret[q[1]][q[2]]
    /\ \E q \in Cells(puzzle.size) : board[q[1]][q[2]] = "forbidden"

\* C12: calculateForbiddenPositions returns a board equal to its input except
\* that an empty cell becomes forbidden exactly when a queen stands in its row,
\* in its column, in a cell of its region or diagonally next to it; x, queen and
\* dot are never overwritten and the input board is left as it was.
C12_OverlayExact ==
    /\ [](call = "calculateForbiddenPositions" =>
            \A q \in Cells(puzzle.size) :
                ret[q[1]][q[2]] =
                    IF board[q[1]][q[2]] = "empty" /\ QueenBlocks(board, puzzle, q[1], q[2])
                    THEN "forbidden"
                    ELSE board[q[1]][q[2]])
    /\ [][call' = "calculateForbiddenPositions" => board' = board]_vars

\* One call turned an empty cell into forbidden, kept an x that a queen blocks
\* and kept an empty cell that no queen blocks.
C12_Witness ==
    /\ call = "calculateForbiddenPositions"
    /\ \E q \in Cells(puzzle.size) :
           board[q[1]][q[2]] = "empty" /\ ret[q[1]][q[2]] = "forbidden"
    /\ \E q \in Cells(puzzle.size) :
           /\ board[q[1]][q[2]] = "x" /\ ret[q[1]][q[2]] = "x"
           /\ QueenBlocks(board, puzzle, q[1], q[2])
    /\ \E q \in Cells(puzzle.size) :
           board[q[1]][q[2]] = "empty" /\ ret[q[1]][q[2]] = "empty"

canPlaceQueen(b, p, row, col) ==
    LET n == p.size
        targetRegion == p.regions[row][col]
    IN  /\ \A r \in 0 .. (row - 1) : b[r][col] # "queen"
        /\ \A r \in 0 .. (row - 1) : \A c \in Idx(n) :
               b[r][c] = "queen" =>
                   /\ Abs(r - row) # Abs(c - col)
                   /\ ~(Abs(r - row) = 1 /\ Abs(c - col) = 1)
        /\ \A r \in 0 .. (row - 1) : \A c \in Idx(n) :
               ~(b[r][c] = "queen" /\ p.regions[r][c] = targetRegion)

\* solvePuzzleRecursive returns [ok, board]: the boolean of the source and the
\* board as the search leaves it (the source mutates the board in place).
\* tryColumns is the for loop over col, from column col on: it returns at the
\* first column that can be placed and whose recursive call succeeds; a column
\* that can be placed and fails is set back to 'empty'.
RECURSIVE solvePuzzleRecursive(_, _, _)
RECURSIVE tryColumns(_, _, _, _)
solvePuzzleRecursive(b, p, row) ==
    IF row = p.size THEN [ok |-> hasWon(b, p), board |-> b]
    ELSE tryColumns(b, p, row, 0)

\* Mutant of tryColumns: the queen is taken back after a successful recursive
\* call too.
tryColumnsUndo(b, p, row, col) ==
    IF col >= p.size THEN [ok |-> FALSE, board |-> b]
    ELSE IF canPlaceQueen(b, p, row, col)
    THEN LET sub == solvePuzzleRecursive([b EXCEPT ![row][col] = "queen"], p, row + 1)
         IN  IF sub.ok THEN [ok |-> TRUE, board |-> [sub.board EXCEPT ![row][col] = "empty"]]
             ELSE tryColumns([sub.board EXCEPT ![row][col] = "empty"], p, row, col + 1)
    ELSE tryColumns(b, p, row, col + 1)

tryColumns(b, p, row, col) ==
    IF col >= p.size THEN [ok |-> FALSE, board |-> b]
    ELSE IF canPlaceQueen(b, p, row, col)
    THEN LET sub == solvePuzzleRecursive([b EXCEPT ![row][col] = "queen"], p, row + 1)
         IN  IF sub.ok THEN sub
             ELSE tryColumns([sub.board EXCEPT ![row][col] = "empty"], p, row, col + 1)
    ELSE tryColumns(b, p, row, col + 1)

isPuzzleSolvable(p) == solvePuzzleRecursive(createEmptyBoard(p.size), p, 0).ok

(***************************************************************************)
(* The seeded region partitioner of logic.ts.                              *)
(***************************************************************************)
maxAttempts == 10
LcgA == 9301
LcgC == 49297
LcgM == 233280

\* An optional seed argument: given with its value, or omitted (undefined).
Given(v) == [given |-> TRUE, value |-> v]
Undefined == [given |-> FALSE, value |-> 0]

\* The % of JavaScript: the result has the sign of the dividend.
JsRem(a, m) == IF a >= 0 THEN a % m ELSE -((-a) % m)

\* Math.floor(a / b) for b > 0.
Floor(a, b) == IF a >= 0 THEN a \div b ELSE -(((-a) + b - 1) \div b)

\* (x * a) mod m for x >= 0, with every intermediate product below 2^31 (the
\* source computes the product exactly, in a double).
MulMod(x, a, m) == ((((x % m) * (a \div 100)) % m) * 100 + (x % m) * (a % 100)) % m

\* SeededRandom.next(): the new state (seed * 9301 + 49297) % 233280, where %
\* keeps the sign of the dividend; the value returned is state / 233280.
next(seed) ==
    IF seed >= 0 THEN (MulMod(seed, LcgA, LcgM) + LcgC) % LcgM
    ELSE IF (-seed) <= LcgC \div LcgA THEN JsRem(seed * LcgA + LcgC, LcgM)
    ELSE -((MulMod(-seed, LcgA, LcgM) + LcgM - LcgC) % LcgM)

\* while (picks.size < n) picks.add(Math.floor(randFunc() * n * n)): the picks
\* in insertion order and the state of the generator after the last draw.
RECURSIVE drawPicks(_, _, _)
drawPicks(picks, seed, n) ==
    IF Len(picks) >= n THEN [picks |-> picks, seed |-> seed]
    ELSE LET s == next(seed)
             k == Floor(s * n * n, LcgM)
         IN  drawPicks(IF \E i \in 1 .. Len(picks) : picks[i] = k THEN picks ELSE Append(picks, k),
                       s, n)

dirs == << <<-1, 0>>, <<1, 0>>, <<0, -1>>, <<0, 1>> >>

\* The seed cells: regions[s.r][s.c] = s.id and q.push for each pick, in order.
RECURSIVE placeSeeds(_, _, _, _)
placeSeeds(state, picks, n, idx) ==
    IF idx > Len(picks) THEN state
    ELSE LET r == Floor(picks[idx], n)
             c == JsRem(picks[idx], n)
         IN  placeSeeds([regions |-> [state.regions EXCEPT ![r][c] = idx - 1],
                         q |-> Append(state.q, <<r, c, idx - 1>>)],
                        picks, n, idx + 1)

\* for (const [dr, dc] of dirs) of the flood fill, for the dequeued cell (r, c, id).
RECURSIVE expand(_, _, _, _, _, _)
expand(state, n, r, c, id, d) ==
    IF d > Len(dirs) THEN state
    ELSE LET rr == r + dirs[d][1]
             cc == c + dirs[d][2]
         IN  IF rr < 0 \/ rr >= n \/ cc < 0 \/ cc >= n THEN expand(state, n, r, c, id, d + 1)
             ELSE IF state.regions[rr][cc] # -1 THEN expand(state, n, r, c, id, d + 1)
             ELSE expand([regions |-> [state.regions EXCEPT ![rr][cc] = id],
                          q |-> Append(state.q, <<rr, cc, id>>)],
                         n, r, c, id, d + 1)

\* while (q.length): the multi-source breadth-first flood fill; dequeue runs
\* up to count iterations of the loop.
RECURSIVE dequeue(_, _, _)
dequeue(state, n, count) ==
    IF count = 0 \/ state.q = <<>> THEN state
    ELSE LET h == Head(state.q)
         IN  dequeue(expand([regions |-> state.regions, q |-> Tail(state.q)],
                            n, h[1], h[2], h[3], 1), n, count - 1)

RECURSIVE floodFill(_, _)
floodFill(state, n) ==
    IF state.q = <<>> THEN state.regions
    ELSE floodFill(dequeue(state, n, n), n)

flood(picks, n) ==
    floodFill(placeSeeds([regions |-> Eager([r \in Idx(n) |-> [c \in Idx(n) |-> -1]]),
                          q |-> <<>>],
                         picks, n, 1), n)

uniqueIds(regions, n) == {regions[rc[1]][rc[2]] : rc \in Cells(n)}

\* Mutant of isValidLayout: the column check is left out.
isValidLayoutRowsOnly(regions, n) ==
    /\ \A r \in Idx(n) : Cardinality({regions[r][c] : c \in Idx(n)}) # 1
    /\ \A id \in uniqueIds(regions, n) :
           Cardinality({rc \in Cells(n) : regions[rc[1]][rc[2]] = id}) <= (n * n) \div 2

\* The layout checks of one attempt: no row and no column of a single label, no
\* label on more than floor(n * n / 2) cells.
isValidLayout(regions, n) ==
    /\ \A r \in Idx(n) : Cardinality({regions[r][c] : c \in Idx(n)}) # 1
    /\ \A c \in Idx(n) : Cardinality({regions[r][c] : r \in Idx(n)}) # 1
    /\ \A id \in uniqueIds(regions, n) :
           Cardinality({rc \in Cells(n) : regions[rc[1]][rc[2]] = id}) <= (n * n) \div 2

\* The last neighbour, in the order of dirs, whose label differs from id; -1 if none.
RECURSIVE neighborIdFrom(_, _, _, _, _, _)
neighborIdFrom(result, n, r, c, d, acc) ==
    IF d > Len(dirs) THEN acc
    ELSE LET rr == r + dirs[d][1]
             cc == c + dirs[d][2]
         IN  IF rr < 0 \/ rr >= n \/ cc < 0 \/ cc >= n THEN neighborIdFrom(result, n, r, c, d + 1, acc)
             ELSE IF result[rr][cc] = result[r][c] THEN neighborIdFrom(result, n, r, c, d + 1, acc)
             ELSE neighborIdFrom(result, n, r, c, d + 1, result[rr][cc])

\* Mutant of smoothCell: the cell-count guard is left out.
smoothCellNoCount(result, n, r, c) ==
    LET id == result[r][c]
        inside == {d \in 1 .. Len(dirs) :
                      /\ r + dirs[d][1] >= 0 /\ r + dirs[d][1] < n
                      /\ c + dirs[d][2] >= 0 /\ c + dirs[d][2] < n}
        neigh == Cardinality(inside)
        same == Cardinality({d \in inside : result[r + dirs[d][1]][c + dirs[d][2]] = id})
        neighborId == neighborIdFrom(result, n, r, c, 1, -1)
    IN  IF neigh > 0 /\ same = 0 /\ neighborId # -1
        THEN [result EXCEPT ![r][c] = neighborId]
        ELSE result

\* Mutant of smoothCell: a cell is relabelled as soon as it has a neighbour of
\* another label.
smoothCellEager(result, n, r, c) ==
    LET neighborId == neighborIdFrom(result, n, r, c, 1, -1)
    IN  IF neighborId # -1 THEN [result EXCEPT ![r][c] = neighborId] ELSE result

\* The body of the two for loops of performConservativeSmoothing for cell (r, c).
smoothCell(result, n, r, c) ==
    LET id == result[r][c]
        inside == {d \in 1 .. Len(dirs) :
                      /\ r + dirs[d][1] >= 0 /\ r + dirs[d][1] < n
                      /\ c + dirs[d][2] >= 0 /\ c + dirs[d][2] < n}
        neigh == Cardinality(inside)
        same == Cardinality({d \in inside : result[r + dirs[d][1]][c + dirs[d][2]] = id})
        neighborId == neighborIdFrom(result, n, r, c, 1, -1)
        regionCellCount == Cardinality({rc \in Cells(n) : result[rc[1]][rc[2]] = id})
    IN  IF neigh > 0 /\ same = 0 /\ neighborId # -1 /\ regionCellCount > 1
        THEN [result EXCEPT ![r][c] = neighborId]
        ELSE result

RECURSIVE smoothRow(_, _, _, _)
smoothRow(result, n, r, c) ==
    IF c \notin DOMAIN result[r] THEN result
    ELSE smoothRow(smoothCell(result, n, r, c), n, r, c + 1)

RECURSIVE smoothFrom(_, _, _)
smoothFrom(result, n, r) ==
    IF r \notin DOMAIN result THEN result
    ELSE smoothFrom(smoothRow(result, n, r, 0), n, r + 1)

performConservativeSmoothing(regions, n) == smoothFrom(regions, n, 0)

\* normalizeRegionIds: each label replaced by its rank among the labels present.
normalizeRegionIds(regions) ==
    LET n == Cardinality(DOMAIN regions)
        ids == uniqueIds(regions, n)
    IN  Eager([r \in Idx(n) |-> [c \in Idx(n) |->
            Cardinality({i \in ids : i < regions[r][c]})]])

pattern1(n) == Eager([r \in Idx(n) |-> [c \in Idx(n) |-> (r + c) % n]])

pattern2(n) == Eager([r \in Idx(n) |-> [c \in Idx(n) |-> (r + (c \div 2)) % n]])

pattern3(n) == Eager([r \in Idx(n) |-> [c \in Idx(n) |-> (c + (r \div 2)) % n]])

pattern4(n) ==
    IF n = 5 THEN Grid(<< <<0, 1, 2, 3, 4>>,
                          <<2, 3, 4, 0, 1>>,
                          <<4, 0, 1, 2, 3>>,
                          <<1, 2, 3, 4, 0>>,
                          <<3, 4, 0, 1, 2>> >>)
    ELSE IF n = 6 THEN Grid(<< <<0, 1, 2, 3, 4, 5>>,
                               <<2, 3, 4, 5, 0, 1>>,
                               <<4, 5, 0, 1, 2, 3>>,
                               <<1, 2, 3, 4, 5, 0>>,
                               <<3, 4, 5, 0, 1, 2>>,
                               <<5, 0, 1, 2, 3, 4>> >>)
    ELSE pattern1(n)

testPuzzle(id, regions) ==
    [id |-> id, size |-> Cardinality(DOMAIN regions), regions |-> regions]

\* createFallbackRegions: the first pattern the oracle calls solvable, and the
\* diagonal stripes when it calls none of them solvable.
createFallbackRegions(n) ==
    IF isPuzzleSolvable(testPuzzle("fallback-test", pattern1(n))) THEN pattern1(n)
    ELSE IF isPuzzleSolvable(testPuzzle("fallback-test", pattern2(n))) THEN pattern2(n)
    ELSE IF isPuzzleSolvable(testPuzzle("fallback-test", pattern3(n))) THEN pattern3(n)
    ELSE IF isPuzzleSolvable(testPuzzle("fallback-test", pattern4(n))) THEN pattern4(n)
    ELSE pattern1(n)

\* From the smoothed grid to the end of one iteration of the retry loop.
afterSmoothing(smoothedRegions, n) ==
    IF Cardinality(uniqueIds(smoothedRegions, n)) = n
       /\ isPuzzleSolvable(testPuzzle("test", normalizeRegionIds(smoothedRegions)))
    THEN [outcome |-> "accept", regions |-> normalizeRegionIds(smoothedRegions)]
    ELSE [outcome |-> "retry", regions |-> NA]

\* From the flood-filled grid to the end of one iteration of the retry loop.
afterFlood(regions, n) ==
    IF Cardinality(uniqueIds(regions, n)) # n THEN [outcome |-> "retry", regions |-> NA]
    ELSE IF ~isValidLayout(regions, n) THEN [outcome |-> "retry", regions |-> NA]
    ELSE afterSmoothing(performConservativeSmoothing(regions, n), n)

\* One iteration of while (attempts < maxAttempts), given the picks drawn.  A
\* negative pick k gives the seed cell row Math.floor(k / n) < 0: regions[s.r]
\* is undefined and the assignment regions[s.r][s.c] = s.id throws a TypeError.
attempt(picks, n) ==
    IF \E i \in 1 .. Len(picks) : picks[i] < 0
    THEN [outcome |-> "throw", regions |-> NA]
    ELSE afterFlood(flood(picks, n), n)

(***************************************************************************)
(* generateRegions(n, seed) as a process; two calls with the same          *)
(* arguments run side by side.                                             *)
(***************************************************************************)
GenSizes == 4 .. MaxN
Seeds == (-MaxSeed) .. MaxSeed
Callers == {1, 2}

\* Math.random has no seed: its stream starts in a state the caller cannot
\* know; it is modelled as the same recurrence started in any of these states.
Entropy == {1, 3}

\* Mutant of randFunc: the stream never starts from the seed.
randFuncUnseeded(seed) == Entropy

\* const random = seed !== undefined ? new SeededRandom(seed) : null;
\* randFunc = random ? () => random.next() : Math.random
randFunc(seed) == IF seed.given THEN {seed.value} ELSE Entropy

\* getDailyPuzzle: the seed and the size it derives from the local date
\* (getMonth() counts from 0), and the arguments it passes to generateRegions.
dailySeed(date) == date.year * 10000 + date.month * 100 + date.day

dailySize(seed) == 5 + (Abs(seed) % 5)

Dates == {[year |-> 2026, month |-> 10, day |-> d] : d \in {5, 10}}

GenArgs ==
    {<<n, Given(v)>> : n \in GenSizes, v \in Seeds}
        \cup {<<n, Undefined>> : n \in GenSizes}
        \cup {<<dailySize(dailySeed(d)), Given(dailySeed(d))>> : d \in Dates}

InitGen ==
    /\ \E a \in GenArgs : genN = a[1] /\ genSeed = a[2]
    /\ gen = [i \in Callers |-> [pc |-> "idle", seed |-> NA, attempts |-> 0,
                                  how |-> NA, regions |-> NA]]
    /\ puzzle = NA /\ board = NA /\ boardWithForbidden = NA
    /\ lastOp = NA /\ call = NA /\ ret = NA
    /\ dayIndex = NA
    /\ basePuzzles = NA /\ rummy = NA

GenFrame == UNCHANGED <<puzzle, board, boardWithForbidden, lastOp, call, ret, genN, genSeed, dayIndex, basePuzzles, rummy>>

\* generateRegions is entered: lines 19-23.
GenStart(i) ==
    /\ gen[i].pc = "idle"
    /\ \E s \in randFunc(genSeed) :
           gen' = [gen EXCEPT ![i] = [@ EXCEPT !.pc = "loop", !.seed = s]]
    /\ GenFrame

\* One iteration of the retry loop: lines 25-152.
GenAttempt(i) ==
    /\ gen[i].pc = "loop"
    /\ gen[i].attempts < maxAttempts
    /\ LET d == drawPicks(<<>>, gen[i].seed, genN)
           a == attempt(d.picks, genN)
       IN  gen' = [gen EXCEPT ![i] =
                [pc |-> CASE a.outcome = "accept" -> "returned"
                          [] a.outcome = "throw" -> "threw"
                          [] OTHER -> "loop",
                 seed |-> d.seed,
                 attempts |-> gen[i].attempts + 1,
                 how |-> IF a.outcome = "accept" THEN "accepted" ELSE NA,
                 regions |-> a.regions]]
    /\ GenFrame

\* The loop has run out: return createFallbackRegions(n), lines 154-155.
GenFallback(i) ==
    /\ gen[i].pc = "loop"
    /\ gen[i].attempts >= maxAttempts
    /\ gen' = [gen EXCEPT ![i] = [@ EXCEPT !.pc = "returned", !.how = "fallback",
                                             !.regions = createFallbackRegions(genN)]]
    /\ GenFrame

NextGen == \E i \in Callers : GenStart(i) \/ GenAttempt(i) \/ GenFallback(i)

SpecGen == InitGen /\ [][NextGen]_vars

(***************************************************************************)
(* ConnectivityValidator.                                                  *)
(***************************************************************************)
\* Mutant of directions: the search never steps to the left.
directionsNoLeft == << <<-1, 0>>, <<1, 0>>, <<0, 1>> >>

directions == << <<-1, 0>>, <<1, 0>>, <<0, -1>>, <<0, 1>> >>

Range(seq) == {seq[i] : i \in 1 .. Len(seq)}

\* The cells of label regionId in the row-major order of the two for loops.
regionCells(regions, regionId, size) ==
    LET S == {rc \in Cells(size) : regions[rc[1]][rc[2]] = regionId}
        pos(q) == q[1] * size + q[2]
    IN  [i \in 1 .. Cardinality(S) |->
            CHOOSE q \in S : Cardinality({o \in S : pos(o) < pos(q)}) = i - 1]

\* The labels of a grid in the order in which the row-major scan adds them to
\* the Set regionIds.
regionIds(regions, size) ==
    LET labels == {regions[rc[1]][rc[2]] : rc \in Cells(size)}
        first(l) == CHOOSE k \in 0 .. (size * size - 1) :
                        /\ regions[k \div size][k % size] = l
                        /\ \A j \in 0 .. (k - 1) : regions[j \div size][j % size] # l
        firstOf == [l \in labels |-> first(l)]
        pos == firstOf @@ firstOf
        ids == [i \in 1 .. Cardinality(labels) |->
                   CHOOSE l \in labels :
                       Cardinality({o \in labels : pos[o] < pos[l]}) = i - 1]
    IN  ids @@ ids

\* while (queue.length > 0): the breadth-first search over cells of label
\* regionId.  order holds every cell pushed so far, in the order pushed; the
\* cells before position i have been shifted off the queue.  A cell is visited
\* when it is in visited (marked by an earlier search) or in order.
RECURSIVE search(_, _, _, _, _, _)
search(regions, regionId, size, visited, order, i) ==
    IF i > Len(order) THEN order
    ELSE LET cell == order[i]
             cand == [d \in 1 .. Len(directions) |->
                         <<cell[1] + directions[d][1], cell[2] + directions[d][2]>>]
             Fresh(x) == /\ x[1] >= 0 /\ x[1] < size
                         /\ x[2] >= 0 /\ x[2] < size
                         /\ x \notin visited
                         /\ x \notin Range(order)
                         /\ regions[x[1]][x[2]] = regionId
         IN  search(regions, regionId, size, visited, order \o SelectSeq(cand, Fresh), i + 1)

isRegionConnected(regions, regionId, size) ==
    LET cells == regionCells(regions, regionId, size)
    IN  IF Len(cells) = 0 THEN TRUE
        ELSE IF Len(cells) = 1 THEN TRUE
        ELSE Len(search(regions, regionId, size, {}, <<cells[1]>>, 1)) = Len(cells)

validateConnectivity(p) ==
    LET ids == regionIds(p.regions, p.size)
    IN  \A k \in 1 .. Len(ids) : isRegionConnected(p.regions, ids[k], p.size)

getConnectedComponent(regions, start, regionId, size, visited) ==
    search(regions, regionId, size, visited, <<start>>, 1)

\* for (const cell of regionCells) if (!visited[cell.r][cell.c]) components.push(...)
RECURSIVE componentsFrom(_, _, _, _, _, _, _)
componentsFrom(regions, cells, regionId, size, k, visited, components) ==
    IF k > Len(cells) THEN components
    ELSE IF cells[k] \in visited
    THEN componentsFrom(regions, cells, regionId, size, k + 1, visited, components)
    ELSE LET component == getConnectedComponent(regions, cells[k], regionId, size, visited)
         IN  componentsFrom(regions, cells, regionId, size, k + 1,
                            visited \cup Range(component), Append(components, component))

\* The path of findShortestPath: along the row of start to the column of end,
\* then along that column to end; start is not part of it, end is.
findShortestPath(regions, start, end, size) ==
    LET dc == end[2] - start[2]
        dr == end[1] - start[1]
        sc == IF dc > 0 THEN 1 ELSE -1
        sr == IF dr > 0 THEN 1 ELSE -1
    IN  [k \in 1 .. Abs(dc) |-> <<start[1], start[2] + k * sc>>]
            \o [k \in 1 .. Abs(dr) |-> <<start[1] + k * sr, end[2]>>]

\* The first shortest path over the pairs (cell1, cell2), cell1 in the outer
\* loop; its cells get label regionId.
connectComponents(regions, component1, component2, regionId, size) ==
    LET pairs == (1 .. Len(component1)) \X (1 .. Len(component2))
        path(pr) == findShortestPath(regions, component1[pr[1]], component2[pr[2]], size)
        before(a, b) == a[1] < b[1] \/ (a[1] = b[1] /\ a[2] < b[2])
        best == CHOOSE pr \in pairs :
                    \A other \in pairs :
                        \/ Len(path(pr)) < Len(path(other))
                        \/ Len(path(pr)) = Len(path(other)) /\ ~before(other, pr)
        bestPath == IF pairs = {} THEN <<>> ELSE path(best)
    IN  Eager([r \in Idx(size) |-> [c \in Idx(size) |->
            IF <<r, c>> \in Range(bestPath) THEN regionId ELSE regions[r][c]]])

\* for (let i = 1; i < components.length; i++) connectComponents(regions, components[0], components[i], ...)
RECURSIVE connectFrom(_, _, _, _, _)
connectFrom(regions, components, regionId, size, i) ==
    IF i > Len(components) THEN regions
    ELSE connectFrom(connectComponents(regions, components[1], components[i], regionId, size),
                     components, regionId, size, i + 1)

connectRegion(regions, regionId, size) ==
    LET cells == regionCells(regions, regionId, size)
        components == componentsFrom(regions, cells, regionId, size, 1, {}, <<>>)
    IN  IF Len(cells) <= 1 THEN regions
        ELSE IF Len(components) > 1 THEN connectFrom(regions, components, regionId, size, 2)
        ELSE regions

\* for (const regionId of regionIds) of fixConnectivity, from the k-th label on;
\* ids is fixed before the loop, fixedRegions changes in it.
RECURSIVE fixFrom(_, _, _, _)
fixFrom(fixedRegions, ids, size, k) ==
    IF k > Len(ids) THEN fixedRegions
    ELSE IF ~isRegionConnected(fixedRegions, ids[k], size)
    THEN fixFrom(connectRegion(fixedRegions, ids[k], size), ids, size, k + 1)
    ELSE fixFrom(fixedRegions, ids, size, k + 1)

fixConnectivity(p) ==
    [p EXCEPT !.regions = fixFrom(p.regions, regionIds(p.regions, p.size), p.size, 1)]

(***************************************************************************)
(* C3, C4, C5: what generateRegions returns.                               *)
(***************************************************************************)
Ended(i) == gen[i].pc \in {"returned", "threw"}

WellFormed(regions, n) ==
    /\ DOMAIN regions = Idx(n)
    /\ \A r \in Idx(n) : DOMAIN regions[r] = Idx(n)
    /\ {regions[rc[1]][rc[2]] : rc \in Cells(n)} = Idx(n)

\* C3: for every n and every seed, generateRegions(n, seed) returns an n-by-n
\* grid whose labels are exactly 0 .. n-1, from the retry loop or from
\* createFallbackRegions: a call that has ended has returned such a grid.
C3_ReturnsLabelledGrid ==
    \A i \in Callers :
        Ended(i) => (gen[i].pc = "returned" /\ WellFormed(gen[i].regions, genN))

\* C4: every grid returned from the retry loop (not from createFallbackRegions)
\* has each label's cells in one 4-connected component: validateConnectivity
\* is true on it.
C4_AcceptedGridsConnected ==
    \A i \in Callers :
        (gen[i].pc = "returned" /\ gen[i].how = "accepted")
            => validateConnectivity(testPuzzle("generated", gen[i].regions))

\* A grid has been accepted in a later attempt of the retry loop.
C4_Witness ==
    \E i \in Callers :
        /\ gen[i].pc = "returned" /\ gen[i].how = "accepted" /\ gen[i].attempts > 1
        /\ validateConnectivity(testPuzzle("generated", gen[i].regions))

C19_NeverRaises ==
    \A i \in Callers :
        /\ gen[i].pc # "threw"
        /\ gen[i].attempts <= maxAttempts
        /\ (gen[i].pc = "returned" /\ gen[i].how = "fallback") => gen[i].attempts = maxAttempts

\* C27: every call of SeededRandom.next() returns a value in [0, 1): the
\* state after a call is the integer (previous state * 9301 + 49297) mod 233280
\* in 0 .. 233279, and every pick floor(next() * n * n) lies in 0 .. n*n - 1.
C27_NextInUnitInterval ==
    \A i \in Callers :
        /\ gen[i].attempts >= 1 => gen[i].seed \in 0 .. (LcgM - 1)
        /\ (gen[i].pc = "loop" /\ gen[i].attempts = 0) =>
               next(gen[i].seed) = (MulMod(gen[i].seed % LcgM, LcgA, LcgM) + LcgC) % LcgM
        /\ gen[i].pc = "loop" =>
               LET picks == drawPicks(<<>>, gen[i].seed, genN).picks
               IN  \A k \in 1 .. Len(picks) : picks[k] \in 0 .. (genN * genN - 1)

\* A grid breaks a layout rule: a row or a column of one single label, or a
\* label on more than floor(n * n / 2) cells.
BreaksLayoutRule(g, n) ==
    \/ \E r \in Idx(n) : \A c \in Idx(n) : g[r][c] = g[r][0]
    \/ \E c \in Idx(n) : \A r \in Idx(n) : g[r][c] = g[0][c]
    \/ \E q \in Cells(n) :
           2 * Cardinality({x \in Cells(n) : g[x[1]][x[2]] = g[q[1]][q[2]]}) > n * n

\* The candidate the next attempt of caller i will flood-fill breaks a layout
\* rule while holding n labels.
CandidateBreaksRule(i) ==
    /\ gen[i].pc = "loop"
    /\ gen[i].attempts < maxAttempts
    /\ LET picks == drawPicks(<<>>, gen[i].seed, genN).picks
       IN  /\ \A k \in 1 .. Len(picks) : picks[k] >= 0
           /\ Cardinality(uniqueIds(flood(picks, genN), genN)) = genN
           /\ BreaksLayoutRule(flood(picks, genN), genN)

\* C26: no grid accepted by the retry loop has a row or a column of a single
\* label or a label on more than floor(n * n / 2) cells; an attempt whose
\* candidate breaks one of the rules rejects it and the loop goes on.
C26_AcceptedGridsObeyLayout ==
    /\ [](\A i \in Callers :
             (gen[i].pc = "returned" /\ gen[i].how = "accepted")
                 => ~BreaksLayoutRule(gen[i].regions, genN))
    /\ [][\A i \in Callers :
              (CandidateBreaksRule(i) /\ gen'[i].seed # gen[i].seed)
                  => (gen'[i].pc = "loop" /\ gen'[i].attempts = gen[i].attempts + 1)]_vars

\* Of two calls with the same seed, one has accepted a grid in an attempt
\* later than the one for which the other is about to draw a candidate that
\* breaks a rule: the first call has rejected that candidate.
C26_Witness ==
    /\ genSeed.given
    /\ \E i \in Callers : \E j \in Callers :
           /\ gen[i].pc = "returned" /\ gen[i].how = "accepted"
           /\ ~BreaksLayoutRule(gen[i].regions, genN)
           /\ CandidateBreaksRule(j)
           /\ gen[j].attempts < gen[i].attempts

(***************************************************************************)
(* The oracle applied to bounded puzzles.                                  *)
(***************************************************************************)
\* A puzzle of size 5 with five connected regions.
c6five == MkPuzzle("c6five", << <<1, 1, 1, 0, 0>>,
                                <<3, 1, 0, 0, 0>>,
                                <<2, 2, 2, 4, 0>>,
                                <<2, 2, 4, 4, 4>>,
                                <<2, 2, 4, 4, 4>> >>)

Ascending(S) ==
    [i \in 1 .. Cardinality(S) |->
        CHOOSE k \in S : Cardinality({o \in S : o < k}) = i - 1]

\* Every grid the flood fill makes of four seed cells on the 4-by-4 board, the
\* first grid of generateRegions for each size and seed, and c6five.
SolvePuzzles ==
    {testPuzzle("flood", flood(Ascending(S), 4)) :
        S \in {T \in SUBSET (0 .. 15) : Cardinality(T) = 4}}
        \cup {testPuzzle("first", flood(drawPicks(<<>>, v, n).picks, n)) :
                 n \in GenSizes, v \in 0 .. MaxSeed}
        \cup {c6five}

InitSolve ==
    /\ puzzle \in SolvePuzzles
    /\ board = createEmptyBoard(puzzle.size)
    /\ boardWithForbidden = NA
    /\ lastOp = NA
    /\ call = "none" /\ ret = NA
    /\ genN = NA /\ genSeed = NA /\ gen = NA
    /\ dayIndex = NA
    /\ basePuzzles = NA /\ rummy = NA

\* isPuzzleSolvable(puzzle): the board is the one the search works on.
CallIsPuzzleSolvable ==
    /\ call = "none"
    /\ LET s == solvePuzzleRecursive(createEmptyBoard(puzzle.size), puzzle, 0)
       IN  /\ ret' = s.ok
           /\ board' = s.board
    /\ call' = "isPuzzleSolvable"
    /\ UNCHANGED <<puzzle, boardWithForbidden, lastOp, genN, genSeed, gen, dayIndex, basePuzzles, rummy>>

NextSolve == CallIsPuzzleSolvable

SpecSolve == InitSolve /\ [][NextSolve]_vars

\* The boards with one queen in every row and in every column.
Placements(n) ==
    {{<<r, f[r]>> : r \in Idx(n)} :
        f \in {g \in [Idx(n) -> Idx(n)] : \A a \in Idx(n) : \A b \in Idx(n) : a # b => g[a] # g[b]}}

\* C6: isPuzzleSolvable(puzzle) is true iff some full placement satisfies all
\* the rules at once: one queen per row, column and region, no two queens
\* touching diagonally (queens further apart on a diagonal are legal).
C6_OracleIffSolvable ==
    call = "isPuzzleSolvable" =>
        (ret <=> \E Q \in Placements(puzzle.size) : WinningSet(Q, puzzle))

\* C7: whenever isPuzzleSolvable returns true, the board the search has built
\* holds one queen in each row and satisfies hasWon for the puzzle.
C7_TrueComesWithWitness ==
    (call = "isPuzzleSolvable" /\ ret) =>
        /\ \A r \in Idx(puzzle.size) :
               Cardinality({c \in Idx(puzzle.size) : board[r][c] = "queen"}) = 1
        /\ hasWon(board, puzzle)

\* The oracle has answered true after backtracking out of the first column of row 0.
C7_Witness ==
    /\ call = "isPuzzleSolvable" /\ ret
    /\ board[0][0] # "queen"
    /\ canPlaceQueen(createEmptyBoard(puzzle.size), puzzle, 0, 0)

(***************************************************************************)
(* The connectivity repair applied to bounded grids.                       *)
(***************************************************************************)
Overwritten(p, E, l) ==
    [p EXCEPT !.regions = Eager([r \in Idx(p.size) |-> [c \in Idx(p.size) |->
        IF <<r, c>> \in E THEN l ELSE p.regions[r][c]]])]

\* The grids of two puzzles with up to MaxEdits cells given another label.
FixInputs ==
    {Overwritten(p, E, l) :
        p \in {q4a, g4s1},
        E \in {F \in SUBSET Cells(4) : Cardinality(F) <= MaxEdits},
        l \in 0 .. 3}

InitFix ==
    /\ puzzle \in FixInputs
    /\ board = NA /\ boardWithForbidden = NA
    /\ lastOp = NA
    /\ call = "none" /\ ret = NA
    /\ genN = NA /\ genSeed = NA /\ gen = NA
    /\ dayIndex = NA
    /\ basePuzzles = NA /\ rummy = NA

CallFixConnectivity == Apply("fixConnectivity", fixConnectivity(puzzle))

CallValidateConnectivity == Apply("validateConnectivity", validateConnectivity(puzzle))

CallPerformConservativeSmoothing ==
    Apply("performConservativeSmoothing", performConservativeSmoothing(puzzle.regions, puzzle.size))

NextFix ==
    \/ CallFixConnectivity
    \/ CallValidateConnectivity
    \/ CallPerformConservativeSmoothing

SpecFix == InitFix /\ [][NextFix]_vars

\* C8: for a grid with a disconnected label, the result of fixConnectivity
\* passes validateConnectivity and has the same set of labels as the grid.
C8_RepairValidatesKeepsLabels ==
    (call = "fixConnectivity" /\ ~validateConnectivity(puzzle)) =>
        /\ validateConnectivity(ret)
        /\ Labels(ret) = Labels(puzzle)

\* The cells of label l, and the cells reachable from cell a through
\* orthogonal steps over cells of a's label.
LabelCells(p, l) == {q \in Cells(p.size) : p.regions[q[1]][q[2]] = l}

RECURSIVE ReachFrom(_, _, _)
ReachFrom(p, l, S) ==
    LET N == S \cup {q \in LabelCells(p, l) :
                        \E x \in S : Abs(x[1] - q[1]) + Abs(x[2] - q[2]) = 1}
    IN  IF N = S THEN S ELSE ReachFrom(p, l, N)

MutuallyReachable(p, l) ==
    \A a \in LabelCells(p, l) : ReachFrom(p, l, {a}) = LabelCells(p, l)

\* C20: validateConnectivity(puzzle) is true iff for every label present in
\* the grid all cells of that label are mutually reachable through orthogonal
\* steps over cells of the same label; one label in two or more components
\* makes it false.
C20_ValidateIffReachable ==
    call = "validateConnectivity" =>
        (ret <=> \A l \in Labels(puzzle) : MutuallyReachable(puzzle, l))

\* The validator has answered false on a grid where one label is split while
\* another label of several cells is in one piece.
C20_Witness ==
    /\ call = "validateConnectivity"
    /\ ~ret
    /\ \E l \in Labels(puzzle) : ~MutuallyReachable(puzzle, l)
    /\ \E l \in Labels(puzzle) :
           Cardinality(LabelCells(puzzle, l)) > 2 /\ MutuallyReachable(puzzle, l)

\* The grid performConservativeSmoothing holds when its scan arrives at cell
\* (r, c): a cell is written at its own turn only, so the cells before (r, c) in
\* row-major order are those of the output and the others those of the input.
Moment(in, out, n, r, c) ==
    [x \in Idx(n) |-> [y \in Idx(n) |->
        IF x * n + y < r * n + c THEN out[x][y] ELSE in[x][y]]]

Isolated(g, n, r, c) ==
    \A x \in Cells(n) :
        Abs(x[1] - r) + Abs(x[2] - c) = 1 => g[x[1]][x[2]] # g[r][c]

\* C25: performConservativeSmoothing never deletes a region: the labels of its
\* output are the labels of its input, and a cell it reassigns had, at that
\* moment, no orthogonal neighbour of its own label and a label of more than
\* one cell.
C25_SmoothingKeepsLabels ==
    call = "performConservativeSmoothing" =>
        /\ {ret[q[1]][q[2]] : q \in Cells(puzzle.size)} = Labels(puzzle)
        /\ \A q \in Cells(puzzle.size) :
               ret[q[1]][q[2]] # puzzle.regions[q[1]][q[2]] =>
                   LET m == Moment(puzzle.regions, ret, puzzle.size, q[1], q[2])
                   IN  /\ Isolated(m, puzzle.size, q[1], q[2])
                       /\ Cardinality({x \in Cells(puzzle.size) :
                                          m[x[1]][x[2]] = m[q[1]][q[2]]}) > 1

\* One call has reassigned an isolated cell and has kept an isolated cell that
\* is the only one of its label.
C25_Witness ==
    /\ call = "performConservativeSmoothing"
    /\ \E q \in Cells(puzzle.size) : ret[q[1]][q[2]] # puzzle.regions[q[1]][q[2]]
    /\ \E q \in Cells(puzzle.size) :
           /\ Isolated(puzzle.regions, puzzle.size, q[1], q[2])
           /\ Cardinality(LabelCells(puzzle, puzzle.regions[q[1]][q[2]])) = 1
           /\ ret[q[1]][q[2]] = puzzle.regions[q[1]][q[2]]

\* C28: on a grid in which every label is 4-connected,
\* performConservativeSmoothing returns the grid unchanged.
C28_SmoothingFixesConnectedGrids ==
    (call = "performConservativeSmoothing" /\ validateConnectivity(puzzle)) =>
        ret = puzzle.regions

\* A connected grid with a label of one single cell has come back unchanged.
C28_Witness ==
    /\ call = "performConservativeSmoothing"
    /\ validateConnectivity(puzzle)
    /\ \E l \in Labels(puzzle) : Cardinality(LabelCells(puzzle, l)) = 1
    /\ ret = puzzle.regions

(***************************************************************************)
(* The puzzle catalog of solvablePuzzles.ts and its selector.              *)
(***************************************************************************)
GUARANTEED_SOLVABLE_PUZZLES == <<
    [id |-> "puzzle-001", size |-> 5,
     regions |-> Grid(<< <<0, 0, 1, 1, 1>>,
                     <<0, 0, 1, 1, 2>>,
                     <<3, 3, 3, 2, 2>>,
                     <<3, 4, 4, 4, 2>>,
                     <<3, 3, 4, 4, 4>> >>)],
    [id |-> "puzzle-002", size |-> 5,
     regions |-> Grid(<< <<0, 0, 1, 1, 1>>,
                     <<0, 2, 2, 1, 3>>,
                     <<0, 2, 4, 4, 3>>,
                     <<2, 2, 2, 4, 3>>,
                     <<2, 4, 4, 4, 3>> >>)],
    [id |-> "puzzle-003", size |-> 5,
     regions |-> Grid(<< <<0, 0, 0, 1, 1>>,
                     <<0, 2, 3, 3, 1>>,
                     <<2, 2, 2, 3, 1>>,
                     <<2, 4, 4, 3, 3>>,
                     <<4, 4, 4, 4, 3>> >>)],
    [id |-> "puzzle-004", size |-> 5,
     regions |-> Grid(<< <<0, 0, 1, 1, 2>>,
                     <<0, 3, 3, 1, 2>>,
                     <<3, 3, 1, 1, 2>>,
                     <<3, 4, 4, 2, 2>>,
                     <<4, 4, 4, 4, 2>> >>)],
    [id |-> "puzzle-005", size |-> 5,
     regions |-> Grid(<< <<0, 0, 0, 1, 1>>,
                     <<0, 2, 3, 3, 1>>,
                     <<2, 2, 2, 3, 1>>,
                     <<2, 4, 4, 3, 3>>,
                     <<4, 4, 4, 4, 3>> >>)],
    [id |-> "puzzle-006", size |-> 6,
     regions |-> Grid(<< <<0, 0, 0, 1, 1, 1>>,
                     <<0, 2, 2, 1, 3, 3>>,
                     <<0, 2, 4, 4, 4, 3>>,
                     <<2, 2, 2, 4, 5, 5>>,
                     <<2, 4, 4, 4, 4, 5>>,
                     <<4, 4, 5, 5, 5, 5>> >>)],
    [id |-> "puzzle-007", size |-> 6,
     regions |-> Grid(<< <<0, 0, 1, 1, 2, 2>>,
                     <<0, 3, 3, 1, 2, 4>>,
                     <<0, 3, 1, 1, 4, 4>>,
                     <<3, 3, 3, 4, 4, 2>>,
                     <<3, 4, 4, 4, 2, 2>>,
                     <<4, 4, 2, 2, 2, 5>> >>)],
    [id |-> "puzzle-008", size |-> 6,
     regions |-> Grid(<< <<0, 0, 1, 1, 2, 2>>,
                     <<0, 3, 3, 1, 2, 4>>,
                     <<3, 3, 1, 1, 4, 4>>,
                     <<3, 5, 5, 4, 4, 1>>,
                     <<5, 5, 0, 0, 4, 1>>,
                     <<5, 0, 0, 3, 3, 1>> >>)],
    [id |-> "puzzle-009", size |-> 6,
     regions |-> Grid(<< <<0, 0, 1, 1, 2, 2>>,
                     <<0, 3, 1, 4, 2, 5>>,
                     <<0, 3, 3, 4, 4, 5>>,
                     <<3, 3, 1, 1, 4, 2>>,
                     <<0, 1, 1, 4, 4, 2>>,
                     <<0, 0, 4, 4, 2, 2>> >>)],
    [id |-> "puzzle-010", size |-> 6,
     regions |-> Grid(<< <<0, 0, 0, 1, 1, 1>>,
                     <<0, 2, 2, 1, 3, 3>>,
                     <<2, 2, 4, 4, 4, 3>>,
                     <<2, 4, 4, 5, 5, 3>>,
                     <<4, 4, 5, 5, 3, 3>>,
                     <<4, 5, 5, 3, 3, 0>> >>)],
    [id |-> "puzzle-011", size |-> 7,
     regions |-> Grid(<< <<0, 0, 0, 1, 1, 1, 2>>,
                     <<0, 3, 3, 1, 4, 4, 2>>,
                     <<0, 3, 5, 5, 5, 4, 2>>,
                     <<3, 3, 3, 5, 4, 4, 4>>,
                     <<3, 6, 6, 5, 5, 4, 2>>,
                     <<6, 6, 0, 0, 4, 4, 2>>,
                     <<6, 0, 0, 1, 1, 2, 2>> >>)],
    [id |-> "puzzle-012", size |-> 7,
     regions |-> Grid(<< <<0, 0, 1, 1, 1, 2, 2>>,
                     <<0, 3, 3, 1, 4, 4, 2>>,
                     <<0, 3, 5, 5, 4, 4, 2>>,
                     <<3, 3, 3, 5, 5, 4, 4>>,
                     <<3, 6, 6, 6, 5, 4, 2>>,
                     <<6, 6, 0, 6, 4, 4, 2>>,
                     <<6, 0, 0, 1, 1, 2, 2>> >>)],
    [id |-> "puzzle-013", size |-> 5,
     regions |-> Grid(<< <<0, 0, 1, 1, 1>>,
                     <<0, 2, 2, 1, 3>>,
                     <<2, 2, 1, 1, 3>>,
                     <<2, 4, 4, 3, 3>>,
                     <<4, 4, 4, 3, 0>> >>)],
    [id |-> "puzzle-014", size |-> 5,
     regions |-> Grid(<< <<0, 0, 1, 1, 1>>,
                     <<0, 2, 2, 1, 3>>,
                     <<0, 2, 4, 4, 3>>,
                     <<2, 2, 2, 4, 3>>,
                     <<2, 4, 4, 4, 3>> >>)],
    [id |-> "puzzle-015", size |-> 5,
     regions |-> Grid(<< <<0, 0, 0, 1, 1>>,
                     <<0, 2, 3, 3, 1>>,
                     <<2, 2, 2, 3, 1>>,
                     <<2, 4, 4, 3, 3>>,
                     <<4, 4, 4, 4, 3>> >>)],
    [id |-> "puzzle-016", size |-> 6,
     regions |-> Grid(<< <<0, 0, 1, 1, 2, 2>>,
                     <<0, 3, 3, 1, 2, 4>>,
                     <<0, 3, 5, 5, 4, 4>>,
                     <<3, 3, 3, 5, 4, 2>>,
                     <<3, 5, 5, 5, 4, 2>>,
                     <<5, 5, 0, 4, 4, 2>> >>)],
    [id |-> "puzzle-017", size |-> 6,
     regions |-> Grid(<< <<0, 0, 1, 1, 1, 2>>,
                     <<0, 3, 3, 1, 4, 2>>,
                     <<0, 3, 5, 5, 4, 2>>,
                     <<3, 3, 3, 5, 4, 4>>,
                     <<3, 1, 1, 5, 5, 2>>,
                     <<0, 0, 5, 2, 2, 2>> >>)],
    [id |-> "puzzle-018", size |-> 7,
     regions |-> Grid(<< <<0, 0, 1, 1, 1, 2, 2>>,
                     <<0, 3, 3, 1, 4, 4, 2>>,
                     <<0, 3, 5, 5, 4, 4, 2>>,
                     <<3, 3, 3, 5, 5, 4, 4>>,
                     <<3, 6, 6, 6, 5, 4, 2>>,
                     <<6, 6, 0, 5, 5, 2, 2>>,
                     <<6, 0, 0, 1, 2, 2, 4>> >>)],
    [id |-> "puzzle-019", size |-> 7,
     regions |-> Grid(<< <<0, 0, 0, 1, 1, 2, 2>>,
                     <<0, 3, 4, 4, 1, 2, 5>>,
                     <<0, 3, 3, 4, 1, 5, 5>>,
                     <<3, 3, 6, 4, 4, 5, 2>>,
                     <<3, 6, 6, 6, 4, 5, 2>>,
                     <<6, 6, 1, 1, 1, 2, 2>>,
                     <<6, 0, 0, 4, 4, 5, 5>> >>)],
    [id |-> "puzzle-020", size |-> 8,
     regions |-> Grid(<< <<0, 0, 0, 1, 1, 1, 2, 2>>,
                     <<0, 3, 3, 1, 4, 4, 2, 5>>,
                     <<0, 3, 6, 6, 6, 4, 2, 5>>,
                     <<3, 3, 3, 6, 4, 4, 4, 5>>,
                     <<3, 7, 7, 6, 6, 4, 5, 5>>,
                     <<7, 7, 0, 0, 6, 4, 4, 2>>,
                     <<7, 0, 0, 1, 1, 1, 2, 2>>,
                     <<7, 7, 1, 6, 6, 2, 2, 5>> >>)],
    [id |-> "puzzle-021", size |-> 8,
     regions |-> Grid(<< <<0, 0, 0, 0, 1, 1, 1, 1>>,
                     <<0, 0, 0, 2, 2, 1, 1, 1>>,
                     <<0, 0, 2, 2, 2, 2, 1, 1>>,
                     <<0, 3, 3, 3, 3, 2, 2, 1>>,
                     <<4, 3, 3, 3, 5, 5, 2, 2>>,
                     <<4, 4, 3, 5, 5, 5, 5, 6>>,
                     <<4, 4, 4, 4, 5, 6, 6, 6>>,
                     <<7, 7, 7, 4, 4, 6, 6, 6>> >>)],
    [id |-> "puzzle-022", size |-> 8,
     regions |-> Grid(<< <<0, 0, 0, 1, 1, 2, 2, 2>>,
                     <<0, 0, 3, 3, 1, 1, 2, 4>>,
                     <<0, 3, 3, 5, 5, 1, 4, 4>>,
                     <<0, 0, 3, 5, 6, 6, 6, 4>>,
                     <<0, 7, 7, 5, 5, 6, 4, 4>>,
                     <<0, 0, 7, 7, 5, 6, 6, 4>>,
                     <<0, 7, 7, 5, 5, 5, 6, 4>>,
                     <<0, 0, 7, 7, 5, 6, 6, 4>> >>)],
    [id |-> "puzzle-023", size |-> 8,
     regions |-> Grid(<< <<0, 0, 1, 1, 2, 2, 3, 3>>,
                     <<0, 4, 4, 1, 2, 5, 5, 3>>,
                     <<0, 4, 6, 6, 2, 5, 7, 7>>,
                     <<4, 4, 4, 6, 6, 5, 5, 7>>,
                     <<4, 0, 0, 6, 2, 2, 7, 7>>,
                     <<0, 0, 1, 1, 2, 5, 5, 3>>,
                     <<0, 1, 1, 1, 2, 3, 3, 3>>,
                     <<4, 4, 1, 6, 6, 2, 7, 7>> >>)],
    [id |-> "puzzle-024", size |-> 9,
     regions |-> Grid(<< <<0, 0, 0, 1, 1, 1, 2, 2, 2>>,
                     <<0, 3, 3, 1, 4, 4, 2, 5, 5>>,
                     <<0, 3, 6, 6, 4, 7, 7, 5, 2>>,
                     <<3, 3, 3, 6, 4, 4, 7, 5, 2>>,
                     <<3, 6, 6, 6, 4, 7, 7, 5, 2>>,
                     <<6, 6, 1, 1, 1, 7, 2, 2, 2>>,
                     <<6, 0, 0, 4, 4, 4, 2, 5, 5>>,
                     <<0, 0, 4, 4, 7, 7, 2, 5, 5>>,
                     <<3, 3, 4, 7, 7, 2, 2, 5, 5>> >>)],
    [id |-> "puzzle-025", size |-> 9,
     regions |-> Grid(<< <<0, 0, 0, 1, 1, 1, 2, 2, 2>>,
                     <<0, 3, 3, 1, 4, 4, 2, 5, 5>>,
                     <<0, 3, 6, 6, 4, 7, 7, 5, 0>>,
                     <<3, 3, 3, 6, 4, 4, 7, 5, 0>>,
                     <<3, 6, 6, 6, 4, 7, 7, 5, 0>>,
                     <<6, 6, 1, 1, 1, 7, 0, 0, 0>>,
                     <<6, 2, 2, 4, 4, 4, 0, 5, 5>>,
                     <<2, 2, 4, 4, 7, 7, 0, 5, 5>>,
                     <<3, 3, 4, 7, 7, 0, 0, 5, 5>> >>)],
    [id |-> "puzzle-026", size |-> 9,
     regions |-> Grid(<< <<0, 0, 1, 1, 1, 2, 2, 2, 3>>,
                     <<0, 4, 4, 1, 5, 5, 2, 6, 3>>,
                     <<0, 4, 7, 7, 5, 0, 0, 6, 3>>,
                     <<4, 4, 4, 7, 5, 5, 0, 6, 6>>,
                     <<4, 1, 1, 7, 7, 0, 0, 6, 3>>,
                     <<1, 1, 0, 7, 0, 0, 6, 6, 3>>,
                     <<1, 2, 2, 1, 1, 2, 2, 3, 3>>,
                     <<2, 2, 1, 7, 7, 2, 6, 6, 3>>,
                     <<4, 4, 1, 7, 0, 0, 6, 3, 3>> >>)],
    [id |-> "puzzle-027", size |-> 9,
     regions |-> Grid(<< <<0, 0, 1, 1, 2, 2, 3, 3, 3>>,
                     <<0, 4, 4, 1, 2, 5, 5, 3, 6>>,
                     <<0, 4, 7, 7, 2, 5, 0, 0, 6>>,
                     <<4, 4, 4, 7, 7, 5, 5, 0, 6>>,
                     <<4, 1, 1, 7, 2, 2, 0, 0, 6>>,
                     <<1, 1, 0, 0, 2, 5, 5, 0, 6>>,
                     <<1, 3, 3, 1, 2, 3, 3, 6, 6>>,
                     <<3, 3, 1, 7, 7, 3, 0, 0, 6>>,
                     <<4, 4, 1, 7, 2, 2, 0, 6, 6>> >>)],
    [id |-> "puzzle-028", size |-> 9,
     regions |-> Grid(<< <<0, 0, 1, 1, 2, 2, 3, 3, 3>>,
                     <<0, 4, 4, 1, 2, 5, 5, 3, 6>>,
                     <<0, 4, 7, 7, 2, 5, 0, 0, 6>>,
                     <<4, 4, 4, 7, 7, 5, 5, 0, 6>>,
                     <<4, 1, 1, 7, 2, 2, 0, 0, 6>>,
                     <<1, 1, 0, 0, 2, 5, 5, 0, 6>>,
                     <<1, 7, 7, 2, 2, 3, 3, 6, 6>>,
                     <<7, 7, 4, 4, 5, 5, 6, 6, 0>>,
                     <<4, 4, 5, 5, 6, 6, 0, 0, 0>> >>)] >>

\* getPuzzleForDay(dayIndex): puzzles[dayIndex % puzzles.length]; an index
\* that is not one of the array is a read of undefined.
getPuzzleForDay(d) ==
    LET puzzles == GUARANTEED_SOLVABLE_PUZZLES
        puzzleIndex == JsRem(d, Len(puzzles))
    IN  IF puzzleIndex \in 0 .. Len(puzzles) - 1
        THEN Given(puzzles[puzzleIndex + 1])
        ELSE Undefined

Days == (-MaxDay) .. MaxDay

InitCatalog ==
    /\ dayIndex \in Days
    /\ puzzle = NA /\ board = NA /\ boardWithForbidden = NA
    /\ lastOp = NA
    /\ call = "none" /\ ret = NA
    /\ genN = NA /\ genSeed = NA /\ gen = NA
    /\ basePuzzles = NA /\ rummy = NA

\* const puzzle = getPuzzleForDay(dayIndex)
GetPuzzleForDay ==
    /\ call = "none"
    /\ call' = "getPuzzleForDay"
    /\ ret' = getPuzzleForDay(dayIndex)
    /\ puzzle' = IF ret'.given THEN ret'.value ELSE NA
    /\ UNCHANGED <<board, boardWithForbidden, lastOp, genN, genSeed, gen, dayIndex, basePuzzles, rummy>>

\* ConnectivityValidator.validateConnectivity applied to the puzzle of the day.
ValidateDaily ==
    /\ call = "getPuzzleForDay"
    /\ ret.given
    /\ call' = "validateConnectivity"
    /\ ret' = validateConnectivity(puzzle)
    /\ UNCHANGED <<puzzle, board, boardWithForbidden, lastOp, genN, genSeed, gen, dayIndex, basePuzzles, rummy>>

NextCatalog == GetPuzzleForDay \/ ValidateDaily

SpecCatalog == InitCatalog /\ [][NextCatalog]_vars

\* C15: for every integer dayIndex, getPuzzleForDay(dayIndex) returns the
\* catalog puzzle at position dayIndex mod catalogSize, hence always a member of
\* the catalog.
C15_SelectsByDayModSize ==
    call = "getPuzzleForDay" =>
        /\ ret.given
        /\ ret.value = GUARANTEED_SOLVABLE_PUZZLES[(dayIndex % Len(GUARANTEED_SOLVABLE_PUZZLES)) + 1]

\* C16: every puzzle the selector returns has a size-by-size region grid with
\* labels in 0 .. size-1, exactly size distinct labels being present.
C16_CatalogGridsLabelled ==
    (call = "getPuzzleForDay" /\ ret.given) =>
        /\ DOMAIN puzzle.regions = Idx(puzzle.size)
        /\ \A r \in Idx(puzzle.size) : DOMAIN puzzle.regions[r] = Idx(puzzle.size)
        /\ Labels(puzzle) \subseteq Idx(puzzle.size)
        /\ Cardinality(Labels(puzzle)) = puzzle.size

\* C17: validateConnectivity returns true for every puzzle the selector returns.
C17_CatalogConnected ==
    call = "validateConnectivity" => ret

\* The full placements that obey the rules, built row by row: s[r + 1] is the
\* column of the queen of row r.
RECURSIVE RuleRows(_, _, _)
RuleRows(p, r, S) ==
    IF r = p.size THEN S
    ELSE RuleRows(p, r + 1,
            {Append(x[1], x[2]) : x \in
                {y \in S \X Idx(p.size) :
                    /\ \A k \in 1 .. r : y[1][k] # y[2]
                    /\ r > 0 => Abs(y[1][r] - y[2]) # 1
                    /\ \A k \in 1 .. r : p.regions[k - 1][y[1][k]] # p.regions[r][y[2]]}})

RulePlacements(p) ==
    IF Cardinality(Labels(p)) # p.size THEN {}
    ELSE {{<<r, s[r + 1]>> : r \in Idx(p.size)} : s \in RuleRows(p, 0, {<<>>})}

\* C18: every puzzle the selector returns is solvable: some board with one
\* queen per row, column and region, no two diagonally adjacent, satisfies hasWon.
C18_CatalogSolvable ==
    (call = "getPuzzleForDay" /\ ret.given) =>
        \E Q \in RulePlacements(puzzle) : hasWon(EvalBoard(Q, 0, puzzle.size), puzzle)

(***************************************************************************)
(* ConnectedPuzzleGenerator: variations of a base set.                     *)
(***************************************************************************)
connectedBasePuzzles == <<
    [id |-> "base-5x5-connected-1", size |-> 5,
     regions |-> Grid(<< <<0, 0, 1, 1, 1>>,
                        <<0, 2, 2, 1, 3>>,
                        <<4, 4, 2, 3, 3>>,
                        <<4, 2, 2, 2, 3>>,
                        <<4, 4, 4, 3, 3>> >>)],
    [id |-> "base-6x6-connected-1", size |-> 6,
     regions |-> Grid(<< <<0, 0, 0, 0, 0, 0>>,
                        <<0, 1, 1, 1, 1, 0>>,
                        <<0, 1, 2, 2, 1, 0>>,
                        <<0, 1, 2, 2, 1, 0>>,
                        <<0, 1, 1, 1, 1, 0>>,
                        <<0, 0, 0, 0, 0, 0>> >>)],
    [id |-> "base-7x7-connected-1", size |-> 7,
     regions |-> Grid(<< <<0, 0, 0, 1, 2, 2, 2>>,
                        <<0, 3, 3, 1, 4, 4, 2>>,
                        <<0, 3, 5, 1, 5, 4, 2>>,
                        <<1, 1, 1, 1, 1, 1, 1>>,
                        <<6, 5, 5, 1, 5, 5, 4>>,
                        <<6, 5, 3, 1, 3, 4, 4>>,
                        <<6, 6, 6, 1, 2, 2, 2>> >>)],
    [id |-> "base-8x8-connected-1", size |-> 8,
     regions |-> Grid(<< <<0, 0, 1, 1, 2, 2, 3, 3>>,
                        <<0, 4, 4, 1, 2, 5, 5, 3>>,
                        <<4, 4, 6, 1, 5, 5, 7, 3>>,
                        <<4, 6, 6, 6, 7, 7, 7, 3>>,
                        <<0, 0, 6, 2, 2, 7, 3, 3>>,
                        <<0, 1, 1, 1, 2, 3, 3, 7>>,
                        <<4, 4, 1, 5, 5, 5, 7, 7>>,
                        <<4, 6, 6, 6, 5, 7, 7, 2>> >>)],
    [id |-> "base-9x9-connected-1", size |-> 9,
     regions |-> Grid(<< <<0, 0, 0, 1, 1, 1, 2, 2, 2>>,
                        <<0, 3, 3, 1, 4, 4, 2, 5, 5>>,
                        <<0, 3, 6, 1, 4, 7, 2, 5, 8>>,
                        <<3, 3, 6, 4, 4, 7, 5, 5, 8>>,
                        <<3, 6, 6, 4, 7, 7, 5, 8, 8>>,
                        <<6, 6, 4, 4, 7, 5, 5, 8, 2>>,
                        <<6, 4, 4, 7, 7, 5, 2, 2, 2>>,
                        <<4, 4, 7, 7, 5, 5, 2, 8, 8>>,
                        <<4, 7, 7, 5, 5, 2, 2, 8, 0>> >>)] >>

\* `puzzle-${String(puzzleId).padStart(3, '0')}`
variationId(puzzleId) ==
    "puzzle-" \o (IF puzzleId < 10 THEN "00" ELSE IF puzzleId < 100 THEN "0" ELSE "")
              \o ToString(puzzleId)

\* shuffleRegionIds: uniqueIds in the order of first appearance, shuffledIds a
\* permutation of them (here: the rotation by k, one outcome of the
\* Fisher-Yates shuffle), each uniqueIds[i] mapped to shuffledIds[i].
shuffleRegionIds(p, k) ==
    LET ids == regionIds(p.regions, p.size)
        m == Len(ids)
        shuffledIds == [i \in 1 .. m |-> ids[((i - 1 + k) % m) + 1]]
        idMapping == [l \in Range(ids) |-> shuffledIds[CHOOSE i \in 1 .. m : ids[i] = l]]
    IN  [p EXCEPT !.regions = Eager([r \in Idx(p.size) |-> [c \in Idx(p.size) |->
            idMapping[p.regions[r][c]]]])]

horizontalFlip(p) ==
    [p EXCEPT !.regions = Eager([r \in Idx(p.size) |-> [c \in Idx(p.size) |->
        p.regions[r][p.size - 1 - c]]])]

verticalFlip(p) ==
    [p EXCEPT !.regions = Eager([r \in Idx(p.size) |-> [c \in Idx(p.size) |->
        p.regions[p.size - 1 - r][c]]])]

rotate180(p) == horizontalFlip(verticalFlip(p))

\* safeTransformations[t].fn, t = 1 .. 4 in the order of the array.
safeTransformation(t, p, k) ==
    CASE t = 1 -> shuffleRegionIds(p, k)
      [] t = 2 -> horizontalFlip(p)
      [] t = 3 -> verticalFlip(p)
      [] t = 4 -> rotate180(p)

\* combos, by the positions of the transformations they name.
combos == << <<1, 2>>, <<1, 3>>, <<2, 3>>, <<1, 4>> >>

\* generateSafeVariations: the four transformations and the four combos of
\* basePuzzle, those kept that pass validateConnectivity, numbered from
\* startId.  shifts[1] is the outcome of the shuffle of the single
\* transformations, shifts[2 .. 4] those of the combos that shuffle.
generateSafeVariations(basePuzzle, startId, shifts) ==
    LET single == [t \in 1 .. 4 |-> safeTransformation(t, basePuzzle, shifts[1])]
        combo(j, k) == safeTransformation(combos[j][2],
                           safeTransformation(combos[j][1], basePuzzle, k), k)
        candidates == single \o << combo(1, shifts[2]), combo(2, shifts[3]),
                                  combo(3, 0), combo(4, shifts[4]) >>
        kept == SelectSeq(candidates, validateConnectivity)
    IN  [i \in 1 .. Len(kept) |-> [kept[i] EXCEPT !.id = variationId(startId + i - 1)]]

\* The loop of generateConnectedVariations from basePuzzles[i] on.
RECURSIVE variationsFrom(_, _, _, _, _)
variationsFrom(base, i, puzzleId, connectedPuzzles, shifts) ==
    IF i > Len(base) THEN connectedPuzzles
    ELSE LET keep == validateConnectivity(base[i])
             withOriginal == IF keep
                             THEN Append(connectedPuzzles,
                                         [base[i] EXCEPT !.id = variationId(puzzleId)])
                             ELSE connectedPuzzles
             nextId == IF keep THEN puzzleId + 1 ELSE puzzleId
             variations == generateSafeVariations(base[i], nextId, shifts)
         IN  variationsFrom(base, i + 1, nextId + Len(variations),
                            withOriginal \o variations, shifts)

generateConnectedVariations(base, shifts) == variationsFrom(base, 1, 1, <<>>, shifts)

\* The base sets handed over: connectedBasePuzzles as
\* generateFullyConnectedPuzzleSet hands it over, and one of its puzzles alone.
BaseSets == {connectedBasePuzzles} \cup
            {<<connectedBasePuzzles[i]>> : i \in 1 .. Len(connectedBasePuzzles)}

ShuffleOutcomes == [1 .. 4 -> 0 .. MaxShift]

InitVary ==
    /\ basePuzzles \in BaseSets
    /\ puzzle = NA /\ board = NA /\ boardWithForbidden = NA
    /\ lastOp = NA
    /\ call = "none" /\ ret = NA
    /\ genN = NA /\ genSeed = NA /\ gen = NA
    /\ dayIndex = NA /\ rummy = NA

CallGenerateConnectedVariations ==
    /\ call = "none"
    /\ call' = "generateConnectedVariations"
    /\ \E shifts \in ShuffleOutcomes :
           ret' = generateConnectedVariations(basePuzzles, shifts)
    /\ UNCHANGED <<puzzle, board, boardWithForbidden, lastOp, genN, genSeed, gen,
                   dayIndex, basePuzzles, rummy>>

NextVary == CallGenerateConnectedVariations

SpecVary == InitVary /\ [][NextVary]_vars

\* C21: every puzzle generateConnectedVariations derives from its base set
\* passes the connectivity check and is solvable.
C21_VariationsConnectedAndSolvable ==
    call = "generateConnectedVariations" =>
        \A i \in 1 .. Len(ret) :
            /\ validateConnectivity(ret[i])
            /\ \E Q \in RulePlacements(ret[i]) :
                   hasWon(EvalBoard(Q, 0, ret[i].size), ret[i])

\* C24: every grid generateRegions returns, accepted in the retry loop or
\* taken from createFallbackRegions, is a solvable puzzle: some board with one
\* queen per row, column and region, no two diagonally adjacent, satisfies hasWon.
C24_ReturnedGridsSolvable ==
    \A i \in Callers :
        gen[i].pc = "returned" =>
            LET p == testPuzzle("returned", gen[i].regions)
            IN  \E Q \in RulePlacements(p) : hasWon(EvalBoard(Q, 0, genN), p)


(***************************************************************************)
(* The rummy game (RummyApp).  A card is its id; rummy holds the React     *)
(* state that says where the cards are and whose turn it is, and the       *)
(* closures handed to setTimeout that have not run yet.  A handler reads   *)
(* the state of the render it was created in: for a button that is the     *)
(* current state, for computerTurn run by a timeout it is the state of the *)
(* render in which discardCard scheduled it.  Multi-select mode and custom *)
(* groups, scores and messages move no card and are left out.              *)
(***************************************************************************)
SUITS == <<"S", "H", "D", "C">>

VALUES == <<"A", "2", "3", "4", "5", "6", "7", "8", "9", "10", "J", "Q", "K">>

HandSize == 13

createDeck ==
    [k \in 1 .. (Len(SUITS) * Len(VALUES)) |->
        SUITS[((k - 1) \div Len(VALUES)) + 1] \o VALUES[((k - 1) % Len(VALUES)) + 1]]
    \o <<"JOKER1", "JOKER2">>

\* shuffleDeck: a permutation of deck; its outcomes here are the cuts of
\* deck at 0 .. MaxCut.
shuffleDeck(deck) ==
    {[i \in 1 .. Len(deck) |-> deck[((i - 1 + k) % Len(deck)) + 1]] : k \in 0 .. MaxCut}

\* array.slice(0, -1) and array[array.length - 1] of a non-empty array
SliceButLast(a) == SubSeq(a, 1, Len(a) - 1)

LastOf(a) == a[Len(a)]

RummyFrame ==
    UNCHANGED <<puzzle, board, boardWithForbidden, lastOp, call, ret, genN, genSeed,
                gen, dayIndex, basePuzzles>>

InitRummy ==
    /\ rummy = [gameState |-> "menu", deck |-> <<>>, playerHand |-> <<>>,
                computerHand |-> <<>>, discardPile |-> <<>>, selectedCards |-> <<>>,
                currentPlayer |-> "player", hasDrawnCard |-> FALSE,
                timeouts |-> <<>>, turns |-> 0]
    /\ puzzle = NA /\ board = NA /\ boardWithForbidden = NA
    /\ lastOp = NA
    /\ call = "none" /\ ret = NA
    /\ genN = NA /\ genSeed = NA /\ gen = NA
    /\ dayIndex = NA /\ basePuzzles = NA

\* "Play vs Computer" of the menu and "Play Again" of the game-over screen.
initializeGame ==
    /\ rummy.gameState \in {"menu", "gameOver"}
    /\ \E newDeck \in shuffleDeck(createDeck) :
           LET playerCards == SubSeq(newDeck, 1, HandSize)
               computerCards == SubSeq(newDeck, HandSize + 1, 2 * HandSize)
               remainingDeck == SubSeq(newDeck, 2 * HandSize + 1, Len(newDeck))
           IN  rummy' = [rummy EXCEPT !.playerHand = playerCards,
                                      !.computerHand = computerCards,
                                      !.deck = Tail(remainingDeck),
                                      !.discardPile = <<remainingDeck[1]>>,
                                      !.currentPlayer = "player",
                                      !.selectedCards = <<>>,
                                      !.hasDrawnCard = FALSE,
                                      !.gameState = "playing"]
    /\ RummyFrame

\* drawFromDeck, where it changes the state: on the player's turn, before a
\* draw.  With an empty deck reshuffleDiscardPile sets the deck and the pile,
\* and the handler returns, its own `deck` still being the empty one.
drawFromDeck ==
    /\ rummy.gameState = "playing"
    /\ rummy.turns < MaxTurns
    /\ rummy.currentPlayer = "player"
    /\ ~rummy.hasDrawnCard
    /\ IF Len(rummy.deck) = 0
       THEN /\ Len(rummy.discardPile) > 1
            /\ \E newDeck \in shuffleDeck(SliceButLast(rummy.discardPile)) :
                   rummy' = [rummy EXCEPT !.deck = newDeck,
                                          !.discardPile = <<LastOf(rummy.discardPile)>>]
       ELSE LET newCard == rummy.deck[1]
                newDeck == Tail(rummy.deck)
            IN  rummy' = [rummy EXCEPT !.playerHand = Append(@, newCard),
                                       !.deck = newDeck,
                                       !.selectedCards = <<>>,
                                       !.hasDrawnCard = TRUE]
    /\ RummyFrame

drawFromDiscardPile ==
    /\ rummy.gameState = "playing"
    /\ rummy.turns < MaxTurns
    /\ rummy.currentPlayer = "player"
    /\ ~rummy.hasDrawnCard
    /\ Len(rummy.discardPile) # 0
    /\ LET topCard == LastOf(rummy.discardPile)
           newDiscardPile == SliceButLast(rummy.discardPile)
       IN  rummy' = [rummy EXCEPT !.playerHand = Append(@, topCard),
                                  !.discardPile = newDiscardPile,
                                  !.selectedCards = <<>>,
                                  !.hasDrawnCard = TRUE]
    /\ RummyFrame

\* handleCardSelection outside multi-select mode, on a card of the hand shown.
handleCardSelection(card) ==
    /\ rummy.gameState = "playing"
    /\ rummy' = [rummy EXCEPT !.selectedCards = <<card>>]
    /\ RummyFrame

\* discardCard; the Discard button is disabled unless it is the player's turn.
\* setTimeout(computerTurn, 1000) hands over the computerTurn of this render,
\* which holds computerHand, deck and discardPile as they are before the
\* discard takes effect.
discardCard ==
    /\ rummy.gameState = "playing"
    /\ rummy.turns < MaxTurns
    /\ rummy.currentPlayer = "player"
    /\ Len(rummy.selectedCards) = 1
    /\ rummy.hasDrawnCard
    /\ LET cardToDiscard == rummy.selectedCards[1]
           newHand == SelectSeq(rummy.playerHand, LAMBDA card : card # cardToDiscard)
           newDiscardPile == Append(rummy.discardPile, cardToDiscard)
           played == [rummy EXCEPT !.playerHand = newHand,
                                   !.discardPile = newDiscardPile,
                                   !.selectedCards = <<>>,
                                   !.hasDrawnCard = FALSE,
                                   !.turns = @ + 1]
       IN  rummy' = IF Len(newHand) = 0
                    THEN [played EXCEPT !.gameState = "gameOver"]
                    ELSE [played EXCEPT
                             !.currentPlayer = "computer",
                             !.timeouts = Append(@, [computerHand |-> rummy.computerHand,
                                                     deck |-> rummy.deck,
                                                     discardPile |-> rummy.discardPile])]
    /\ RummyFrame

\* The draw of computerTurn from the hand, deck and pile it holds; reshuffled
\* is the outcome of shuffleDeck should the deck be reshuffled.
computerDraw(hand, deck, pile, drawFromDeckAI, reshuffled) ==
    IF drawFromDeckAI /\ Len(deck) > 0
    THEN [hand |-> Append(hand, deck[1]), deck |-> Tail(deck), pile |-> pile]
    ELSE IF drawFromDeckAI /\ Len(deck) = 0
    THEN IF Len(pile) > 1
         THEN IF Len(reshuffled) > 0
              THEN [hand |-> Append(hand, reshuffled[1]), deck |-> Tail(reshuffled),
                    pile |-> <<LastOf(pile)>>]
              ELSE [hand |-> hand, deck |-> reshuffled, pile |-> <<LastOf(pile)>>]
         ELSE IF Len(pile) > 0
              THEN [hand |-> Append(hand, LastOf(pile)), deck |-> deck,
                    pile |-> SliceButLast(pile)]
              ELSE [hand |-> hand, deck |-> deck, pile |-> pile]
    ELSE IF Len(pile) > 0
    THEN [hand |-> Append(hand, LastOf(pile)), deck |-> deck, pile |-> SliceButLast(pile)]
    ELSE [hand |-> hand, deck |-> deck, pile |-> pile]

\* The discard of computerTurn: the card at randomIndex (0-based) leaves the hand.
computerDiscard(d, randomIndex) ==
    IF Len(d.hand) > 0
    THEN [hand |-> [i \in 1 .. (Len(d.hand) - 1) |->
                       IF i <= randomIndex THEN d.hand[i] ELSE d.hand[i + 1]],
          deck |-> d.deck,
          pile |-> Append(d.pile, d.hand[randomIndex + 1])]
    ELSE d

\* computerTurn, run by the oldest timeout that is due.
computerTurn ==
    /\ rummy.timeouts # <<>>
    /\ LET held == Head(rummy.timeouts)
       IN  \E drawFromDeckAI \in BOOLEAN :
           \E reshuffled \in (IF Len(held.discardPile) > 1
                              THEN shuffleDeck(SliceButLast(held.discardPile))
                              ELSE {<<>>}) :
               LET drawn == computerDraw(held.computerHand, held.deck, held.discardPile,
                                         drawFromDeckAI, reshuffled)
               IN  \E randomIndex \in 0 .. (IF Len(drawn.hand) > 0 THEN Len(drawn.hand) - 1 ELSE 0) :
                       LET done == computerDiscard(drawn, randomIndex)
                           set == [rummy EXCEPT !.computerHand = done.hand,
                                                !.deck = done.deck,
                                                !.discardPile = done.pile,
                                                !.timeouts = Tail(@)]
                       IN  rummy' = IF Len(done.hand) = 0
                                    THEN [set EXCEPT !.gameState = "gameOver"]
                                    ELSE [set EXCEPT !.currentPlayer = "player"]
    /\ RummyFrame

NextRummy ==
    \/ initializeGame
    \/ drawFromDeck
    \/ drawFromDiscardPile
    \/ \E card \in Range(rummy.playerHand) : handleCardSelection(card)
    \/ discardCard
    \/ computerTurn

SpecRummy == InitRummy /\ [][NextRummy]_vars

\* C30: once initializeGame has dealt, and through every draw, discard and
\* computer turn, each card of the deck createDeck makes is in exactly one of
\* deck, discard pile, player hand and computer hand: none lost, none twice.
C30_EveryCardInOnePlace ==
    rummy.gameState # "menu" =>
        LET all == rummy.deck \o rummy.discardPile \o rummy.playerHand \o rummy.computerHand
        IN  /\ Len(all) = Len(createDeck)
            /\ Range(all) = Range(createDeck)

====
